---- MODULE Spec2Model ----
(***************************************************************************)
(* xtracer: the parallel per-scanline renderer (src/src/main.rs), the     *)
(* recursive integrator trace, and the vector / intersection / shading /  *)
(* random routines they call.                                              *)
(*                                                                         *)
(* Numbers.  The program computes in f64 (colours in f32).  The model      *)
(* computes in fixed point: the integer n stands for the real n / Unit.    *)
(* Every product and quotient is rounded (towards zero) after each         *)
(* operation, as a float operation rounds after each operation.            *)
(*                                                                         *)
(* Routines.  A routine of the program is a sequence of let statements     *)
(* and early returns.  The model writes it as a chain of operators: each   *)
(* operator stands for the routine from one statement on and receives as   *)
(* parameters the values bound before that statement, so that a value is   *)
(* computed once, where the program computes it.                           *)
(***************************************************************************)
EXTENDS Integers, Sequences, FiniteSets, TLC

\* Resolution of the number representation: n stands for n / Unit.
Unit == 1000

Abs(x) == IF x < 0 THEN -x ELSE x
Max(a, b) == IF a >= b THEN a ELSE b
Min(a, b) == IF a <= b THEN a ELSE b

\* Integer quotient rounded towards zero (b # 0).
TDiv(a, b) ==
    IF (a < 0) = (b < 0) THEN Abs(a) \div Abs(b) ELSE -(Abs(a) \div Abs(b))

\* a * b and a / b on represented numbers.
FMul(a, b) == TDiv(a * b, Unit)
FDiv(a, b) == TDiv(a * Unit, b)

\* x * x
Sq(x) == FMul(x, x)

\* a * b where the product of the representations exceeds TLC's 32-bit
\* integers: computed on the whole part q and the fractional part of b
\* separately; the value is that of FMul(a, b).
FMulParts(a, b, q) == a * q + TDiv(a * (b - q * Unit), Unit)
FMulWide(a, b) == FMulParts(a, b, TDiv(b, Unit))

\* e, with x evaluated first: the program evaluates a let binding at its
\* statement, TLC an argument where it is first used.
Now(x, e) == IF x = x THEN e ELSE e

\* s * s <= n, for s and n within 32 bits
SqLe(s, n) == s <= 46340 /\ s * s <= n

\* One digit of a square root in base 36: the largest s + w * d, d a
\* digit, whose square is at most n.
SqrtDigit(n, s, w) ==
    s + w * (CHOOSE d \in 0..35 : SqLe(s + w * d, n) /\ ~SqLe(s + w * (d + 1), n))

\* Largest s with s * s <= n (0 <= n < 2^31), found digit by digit in
\* base 36: s = 1296 a + 36 b + c.
ISqrt(n) == SqrtDigit(n, SqrtDigit(n, SqrtDigit(n, 0, 1296), 36), 1)

\* f64::sqrt on represented numbers (x >= 0): sqrt(x / Unit) * Unit.
FSqrt(x) == ISqrt(x * Unit)

\* The f64 that are no finite numbers of the model: the infinities Inf and
\* -Inf, which lie beyond every finite number, NaN, with which every
\* comparison is false, and f64::MAX.
Inf == 1000000000
NaN == 2000000000
F64Max == 999999999

\* a > b, a < b, a >= b and a <= b of f64
Gt(a, b) == a # NaN /\ b # NaN /\ a > b
Lt(a, b) == a # NaN /\ b # NaN /\ a < b
Ge(a, b) == a # NaN /\ b # NaN /\ a >= b
Le(a, b) == a # NaN /\ b # NaN /\ a <= b

\* a * b of f64: NaN of a NaN and of 0 * inf, an infinity of an infinity
FProd(a, b) ==
    IF a = NaN \/ b = NaN THEN NaN
    ELSE IF Abs(a) = Inf \/ Abs(b) = Inf
    THEN (IF a = 0 \/ b = 0 THEN NaN ELSE IF (a < 0) = (b < 0) THEN Inf ELSE -Inf)
    ELSE FMulWide(a, b)

\* a / b of f64 for b # 0: NaN of a NaN and of inf / inf, an infinity of
\* an infinite a, 0 of an infinite b
FQuot(a, b) ==
    IF a = NaN \/ b = NaN THEN NaN
    ELSE IF Abs(a) = Inf
    THEN (IF Abs(b) = Inf THEN NaN ELSE IF (a < 0) = (b < 0) THEN Inf ELSE -Inf)
    ELSE IF Abs(b) = Inf THEN 0
    ELSE FDiv(a, b)

(***************************************************************************)
(* Vector4F (linear.rs)                                                    *)
(***************************************************************************)
Vec(x, y, z, w) == [x |-> x, y |-> y, z |-> z, w |-> w]

\* Vector4F::new: a point, w = 1.0
VNew(x, y, z) == Vec(x, y, z, Unit)

\* Vector4F::null
VNull == Vec(0, 0, 0, 0)

\* impl Add for &Vector4F
VAdd(v1, v2) == Vec(v1.x + v2.x, v1.y + v2.y, v1.z + v2.z, v1.w + v2.w)

\* impl Sub for &Vector4F
VSub(v1, v2) == Vec(v1.x - v2.x, v1.y - v2.y, v1.z - v2.z, v1.w - v2.w)

\* Vector4F::dot
dot(v1, v2) == FMul(v1.x, v2.x) + FMul(v1.y, v2.y) + FMul(v1.z, v2.z)

\* Vector4F::cross
cross(v1, v2) ==
    Vec(FMul(v1.y, v2.z) - FMul(v2.y, v1.z),
        FMul(v1.z, v2.x) - FMul(v2.z, v1.x),
        FMul(v1.x, v2.y) - FMul(v2.x, v1.y),
        Unit)

\* Vector4F::sqr_len
sqr_len(v) == FMul(v.x, v.x) + FMul(v.y, v.y) + FMul(v.z, v.z)

\* Vector4F::len
len(v) == FSqrt(sqr_len(v))

\* v / l of Vector4F::normalize: the null vector for a zero length l
DivLen(v, l) ==
    IF l = 0 THEN VNull ELSE Vec(FDiv(v.x, l), FDiv(v.y, l), FDiv(v.z, l), v.w)

\* Vector4F::normalize
normalize(v) == DivLen(v, len(v))

\* Vector4F::invert
invert(v) == Vec(-v.x, -v.y, -v.z, v.w)

\* Vector4F::half
half(v1, v2) == normalize(VAdd(v1, v2))

(***************************************************************************)
(* Intersections (linear.rs)                                               *)
(***************************************************************************)
\* Option<Intersection>: kind "none", "some", or "panic" when an assert!
\* of the routine fails.
None == [kind |-> "none"]
Panic == [kind |-> "panic"]
Some(pos, normal, barycentric, ray_t) ==
    [kind |-> "some", pos |-> pos, normal |-> normal, tex_u |-> 0, tex_v |-> 0,
     barycentric |-> barycentric, ray_t |-> ray_t]

\* p0 + d * t: the point of a ray at the parameter t
PointAt(p0, d, t) ==
    Vec(p0.x + FMul(d.x, t), p0.y + FMul(d.y, t), p0.z + FMul(d.z, t), Unit)

\* intersect_ray_sphere from the test of t on: t = a - f, the point and
\* its normal.
SphereHit(p0, dnorm, c, a, f, min_t) ==
    IF f < 0 THEN None
    ELSE IF a - f <= 0 \/ a - f > min_t THEN None
    ELSE LET point == PointAt(p0, dnorm, a - f)
         IN  Some(point, normalize(VSub(point, c)), Vec(0, 0, 0, Unit), a - f)

\* intersect_ray_sphere from k on: k = r * r - le * le + a * a
SphereRoot(p0, dnorm, c, le, a, r, min_t) ==
    Now(<<le, a>>,
        LET k == FMul(r, r) - FMul(le, le) + FMul(a, a)
        IN  IF k < 0 THEN None
            ELSE SphereHit(p0, dnorm, c, a, FSqrt(k), min_t))

\* intersect_ray_sphere with dnorm = d.normalize() and e = c - p0
SphereProject(p0, dnorm, e, c, r, min_t) ==
    Now(<<dnorm, e>>,
        SphereRoot(p0, dnorm, c, len(e), dot(e, dnorm), r, min_t))

intersect_ray_sphere(p0, d, c, r, min_t) ==
    SphereProject(p0, normalize(d), VSub(c, p0), c, r, min_t)

\* The dominant-axis projection of intersect_ray_triangle: the pair of
\* coordinates (u, v) of q - p0 that the routine keeps.
ProjectUV(n, q, p0) ==
    IF Abs(n.x) > Abs(n.y)
    THEN (IF Abs(n.x) > Abs(n.z) THEN <<q.y - p0.y, q.z - p0.z>>
                                 ELSE <<q.x - p0.x, q.y - p0.y>>)
    ELSE (IF Abs(n.y) > Abs(n.z) THEN <<q.x - p0.x, q.z - p0.z>>
                                 ELSE <<q.x - p0.x, q.y - p0.y>>)

\* intersect_ray_triangle from the tests of the barycentric coordinates
\* on; n0, n1 and n2 are all the normal of t0.
TriInside(t0, p, t, alpha, beta, gamma) ==
    IF ~(alpha >= 0) THEN None
    ELSE IF ~(beta >= 0) THEN None
    ELSE IF ~(gamma >= 0) THEN None
    ELSE Some(p,
              normalize(Vec(FMul(t0.normal.x, alpha) + FMul(t0.normal.x, beta)
                               + FMul(t0.normal.x, gamma),
                            FMul(t0.normal.y, alpha) + FMul(t0.normal.y, beta)
                               + FMul(t0.normal.y, gamma),
                            FMul(t0.normal.z, alpha) + FMul(t0.normal.z, beta)
                               + FMul(t0.normal.z, gamma),
                            Unit)),
              VNew(alpha, beta, gamma), t)

\* alpha and beta given, gamma = 1 - alpha - beta
TriGamma(t0, p, t, alpha, beta) ==
    TriInside(t0, p, t, alpha, beta, Unit - alpha - beta)

\* intersect_ray_triangle from temp on, with (u0, v0), (u1, v1), (u2, v2)
\* the projections of p - p0, p1 - p0 and p2 - p0, and
\* temp0 = u1 * v2 - v1 * u2
TriBarycentric(t0, p, t, uv0, uv1, uv2, temp0) ==
    IF ~(temp0 # 0) THEN None
    ELSE TriGamma(t0, p, t,
                  FMul(FMul(uv0[1], uv2[2]) - FMul(uv0[2], uv2[1]), FDiv(Unit, temp0)),
                  FMul(FMul(uv1[1], uv0[2]) - FMul(uv1[2], uv0[1]), FDiv(Unit, temp0)))

TriProjected(t0, p, t, uv0, uv1, uv2) ==
    Now(<<uv0, uv1, uv2>>,
        TriBarycentric(t0, p, t, uv0, uv1, uv2,
                       FMul(uv1[1], uv2[2]) - FMul(uv1[2], uv2[1])))

\* intersect_ray_triangle at the intersection point p of the ray and
\* the plane
TriPoint(t0, t1, t2, n, t, p) ==
    Now(p,
        TriProjected(t0, p, t, ProjectUV(n, p, t0.pos), ProjectUV(n, t1.pos, t0.pos),
                     ProjectUV(n, t2.pos, t0.pos)))

\* intersect_ray_triangle from t = tn / dt on: assert!(t >= 0.0)
TriParam(rorg, rdir, t0, t1, t2, n, t) ==
    IF ~Ge(t, 0) THEN Panic
    ELSE TriPoint(t0, t1, t2, n, t, PointAt(rorg, rdir, t))

\* intersect_ray_triangle with dt = n . rdir and tn = d - n . rorg: the
\* tests of the facing, of the side of the origin and of min_t
TriPlane(rorg, rdir, t0, t1, t2, min_t, n, dt, tn) ==
    IF ~Lt(dt, 0) THEN None
    ELSE IF ~Le(tn, 0) THEN None
    ELSE IF ~Ge(tn, FProd(dt, min_t)) THEN None
    ELSE TriParam(rorg, rdir, t0, t1, t2, n, FQuot(tn, dt))

\* intersect_ray_triangle with the surface normal n = e1 x e2
TriNormal(rorg, rdir, t0, t1, t2, min_t, n) ==
    Now(n,
        TriPlane(rorg, rdir, t0, t1, t2, min_t, n, dot(n, rdir),
                 dot(n, t0.pos) - dot(n, rorg)))

\* A vertex is [pos, normal]; t0, t1, t2 are the triangle's vertices.
intersect_ray_triangle(rorg, rdir, t0, t1, t2, min_t) ==
    TriNormal(rorg, rdir, t0, t1, t2, min_t,
              cross(VSub(t1.pos, t0.pos), VSub(t2.pos, t1.pos)))

(***************************************************************************)
(* Shading (shade.rs)                                                      *)
(***************************************************************************)
\* const PI
PI == 3142

\* The smallest positive represented number.  It stands for the clamp
\* constants 0.0001 and 0.000001 of shade.rs, which lie below the
\* resolution; like them it only keeps a divisor away from zero.
Tiny == 1

\* The Taylor polynomial of e^y, with y2 = y * y
ExpPoly(y, y2) ==
    Unit + y + y2 \div 2 + FMul(y2, y) \div 6 + FMul(FMul(y2, y), y) \div 24

\* e^y for 0 <= y: halving until y <= 1/2, then the Taylor polynomial.
RECURSIVE ExpPos(_)
ExpPos(y) ==
    IF y > Unit \div 2 THEN Sq(ExpPos(y \div 2)) ELSE ExpPoly(y, FMul(y, y))

\* E.powf(y).  Below e^-7 the value is under the resolution; above e^7
\* it is capped (the integrator never raises E to such a power).
ExpFix(y) ==
    IF y <= -7 * Unit THEN 0
    ELSE IF y < 0 THEN FDiv(Unit, ExpPos(-y))
    ELSE ExpPos(Min(y, 7 * Unit))

\* The series of 2 atanh(z), with z2 = z * z
AtanhSeries(z, z2) ==
    2 * (z + TDiv(FMul(z2, z), 3) + TDiv(FMul(FMul(z2, z), z2), 5))

\* 2 atanh(z)
Atanh2(z) == AtanhSeries(z, FMul(z, z))

\* ln x for 0 < x: doubling or halving into [1/2, 2] (ln 2 = 0.693), then
\* the series of 2 atanh((x - 1) / (x + 1)).
RECURSIVE LnFix(_)
LnFix(x) ==
    IF x < Unit \div 2 THEN LnFix(2 * x) - 693
    ELSE IF x > 2 * Unit THEN LnFix(x \div 2) + 693
    ELSE Atanh2(FDiv(x - Unit, x + Unit))

\* f64::powf(x, p) for p > 0 and 0 <= x.  (A negative base gives NaN in
\* f64; the shading routines pass 1 - max(0, cos), which is negative only
\* through rounding, and the model maps it to 0.)
powf(x, p) == IF x <= 0 THEN 0 ELSE ExpFix(FMul(p, LnFix(x)))

\* shade_lambert without the clamp at 0
shade_lambert_unclamped(l, n) == dot(n, l)

shade_lambert(l, n) == Max(0, dot(n, l))

saturate(v) ==
    LET r1 == IF v < 0 THEN 0 ELSE v
    IN  IF r1 > Unit THEN Unit ELSE r1

\* v - c * n, the vectors lp and vp of shade_oren_nayar
Reject(v, c, n) ==
    Vec(v.x - FMul(c, n.x), v.y - FMul(c, n.y), v.z - FMul(c, n.z), Unit)

\* shade_oren_nayar from the test of ct_x and ct_y on:
\* don = cp * st / max(ct_x, ct_y), dif = ct_x * (on_x + on_y * don)
OrenNayarDif(ct_x, ct_y, on_x, on_y, st, cp) ==
    IF Now(<<on_x, on_y, st, cp>>, ct_x = 0 \/ ct_y = 0) THEN 0
    ELSE FMul(ct_x, on_x + FMul(on_y, FDiv(FMul(cp, st), Max(ct_x, ct_y))))

\* shade_oren_nayar with r2 = rough * rough, ct_x = saturate(n . l) and
\* ct_y = saturate(n . v); 0.33, 0.09, -0.5 and 0.45 are its constants
OrenNayarTerms(l, n, v, r2, ct_x, ct_y) ==
    Now(<<r2, ct_x, ct_y>>,
        OrenNayarDif(ct_x, ct_y,
                     Unit + FMul(-500, FDiv(r2, r2 + 330)),
                     0 + FMul(450, FDiv(r2, r2 + 90)),
                     FSqrt(FMul(Unit - FMul(ct_x, ct_x), Unit - FMul(ct_y, ct_y))),
                     saturate(dot(Reject(l, ct_x, n), Reject(v, ct_y, n)))))

shade_oren_nayar(l, n, v, rough, alb) ==
    OrenNayarTerms(l, n, v, FMul(rough, rough), saturate(dot(n, l)),
                   saturate(dot(n, v)))

\* beckmann with cos2alpha, rough2 and denom computed.  In f64 the
\* divisor is never zero (ndoth >= 0.0001); when cos2alpha or denom falls
\* below the resolution the exponential has long fallen below it too
\* (rough <= 1), and the quotient is 0.
BeckmannQuotient(cos2alpha, rough2, denom) ==
    IF cos2alpha = 0 \/ denom = 0 \/ rough2 = 0 THEN 0
    ELSE FDiv(ExpFix(FDiv(FDiv(cos2alpha - Unit, cos2alpha), rough2)), denom)

\* beckmann with cos2alpha = ndoth * ndoth and rough2 = rough * rough
BeckmannTerms(cos2alpha, rough2) ==
    Now(<<cos2alpha, rough2>>,
        BeckmannQuotient(cos2alpha, rough2,
                         FMul(FMul(FMul(PI, rough2), cos2alpha), cos2alpha)))

beckmann(x, rough) == BeckmannTerms(Sq(Max(x, Tiny)), FMul(rough, rough))

\* The last line of shade_cook_torrance
CookTorranceQuotient(vdotn, ldotn, g, d, f) ==
    Now(<<g, d, f>>,
        FDiv(FMul(FMul(g, f), d), Max(FMul(FMul(PI, vdotn), ldotn), Tiny)))

\* shade_cook_torrance with x = 2.0 * ndoth / vdoth
CookTorranceX(vdotn, ldotn, ndoth, x, rough, fresnel) ==
    Now(x,
        CookTorranceQuotient(vdotn, ldotn,
                             Min(Unit, Min(FMul(x, vdotn), FMul(x, ldotn))),
                             beckmann(ndoth, rough),
                             powf(Unit - vdotn, fresnel)))

\* shade_cook_torrance with ndoth and vdoth computed
CookTorranceHalf(vdotn, ldotn, ndoth, vdoth, rough, fresnel) ==
    Now(<<ndoth, vdoth>>,
        CookTorranceX(vdotn, ldotn, ndoth, FDiv(2 * ndoth, vdoth), rough, fresnel))

\* shade_cook_torrance with vdotn, ldotn and h = half(l, v) computed
CookTorranceTerms(v, n, vdotn, ldotn, h, rough, fresnel) ==
    Now(<<vdotn, ldotn, h>>,
        CookTorranceHalf(vdotn, ldotn, Max(0, dot(n, h)), Max(Tiny, dot(v, h)),
                         rough, fresnel))

shade_cook_torrance(l, v, n, rough, fresnel) ==
    CookTorranceTerms(v, n, Max(0, dot(v, n)), Max(0, dot(l, n)), half(l, v),
                      rough, fresnel)

(***************************************************************************)
(* Random (random.rs)                                                      *)
(*                                                                         *)
(* Random is a unit struct: it holds no seed and no state.  random_f asks  *)
(* rand::thread_rng(), the operating-system seeded generator of the        *)
(* calling thread.  The numbers a thread obtains are therefore an input    *)
(* of the run: a thread's entropy is a sequence rs over RandVals, read     *)
(* cyclically, and k counts the numbers drawn so far.                      *)
(***************************************************************************)
\* The values random_f may return (0.0, 0.25, 0.5, 0.75).
RandVals == {0, 250, 500, 750}

\* Random::random_f: the value drawn and the advanced position.
random_f(rs, k) == [val |-> rs[(k % Len(rs)) + 1], k |-> k + 1]

\* cos(2 PI u) and sin(2 PI u) for the quarter turns u of RandVals.
Cos2Pi(u) == CASE u = 0 -> Unit [] u = 250 -> 0 [] u = 500 -> -Unit [] u = 750 -> 0
Sin2Pi(u) == CASE u = 0 -> 0 [] u = 250 -> Unit [] u = 500 -> 0 [] u = 750 -> -Unit

\* The point of random_point_on_unit_sphere for the drawn u and
\* cos(phi), sin(phi)
UnitSpherePoint(u, cos_phi, sin_phi) ==
    Vec(FMul(sin_phi, Cos2Pi(u)), FMul(sin_phi, Sin2Pi(u)), cos_phi, Unit)

\* random_point_on_unit_sphere with u and v drawn (du, dv).
\* phi = acos(2v - 1) lies in [0, PI], so cos(phi) = 2v - 1 and
\* sin(phi) = sqrt(1 - cos(phi)^2).
UnitSphereDrawn(du, dv) ==
    Now(dv,
        [v |-> UnitSpherePoint(du.val, 2 * dv.val - Unit,
                               FSqrt(Unit - Sq(2 * dv.val - Unit))),
         k |-> dv.k])

\* random_point_on_unit_sphere with u drawn
UnitSphereU(rs, du) ==
    Now(du,
        UnitSphereDrawn(du, random_f(rs, du.k)))

\* Random::random_point_on_unit_sphere: [v, k], the point and the
\* advanced position
random_point_on_unit_sphere(rs, k) == UnitSphereU(rs, random_f(rs, k))

\* random_point_on_sphere with usp drawn
OnSphere(pos, radius, usp) ==
    Now(usp,
        [v |-> Vec(pos.x + FMul(radius, usp.v.x),
                   pos.y + FMul(radius, usp.v.y),
                   pos.z + FMul(radius, usp.v.z), Unit),
         k |-> usp.k])

\* Random::random_point_on_sphere
random_point_on_sphere(rs, k, pos, radius) ==
    OnSphere(pos, radius, random_point_on_unit_sphere(rs, k))

\* random_point_on_hemisphere with usp drawn
OnHemisphere(usp, n) ==
    [v |-> IF dot(usp.v, n) < 0 THEN invert(usp.v) ELSE usp.v, k |-> usp.k]

\* Random::random_point_on_hemisphere
random_point_on_hemisphere(rs, k, n) ==
    OnHemisphere(random_point_on_unit_sphere(rs, k), n)

(***************************************************************************)
(* The integrator (main.rs, trace)                                         *)
(*                                                                         *)
(* A scene is [materials, spheres, meshes, lights, skycolor, max_depth,    *)
(* path_samples]; a material [id, color, roughness]; a sphere [center,     *)
(* radius, material]; a mesh [triangles, material] with triangles          *)
(* [v1, v2, v3]; a light [ltype, position, color, radius, samples,         *)
(* intensity].  Sequences are indexed from 1, the program's indices from   *)
(* 0: element i of the program is element i + 1 of the sequence.           *)
(***************************************************************************)
Color(r, g, b) == [r |-> r, g |-> g, b |-> b]

\* Color::black
black == Color(0, 0, 0)

\* let mut min_t = 9999999999.99: farther than anything in a scene.  The
\* model's integers end at 2^31 and intersect_ray_triangle multiplies
\* min_t by a dot product, so the horizon is 10000.0.
MinTInit == 10000000

\* linear::ray_intersects_sphere and linear::ray_intersects_triangle are
\* called by trace and defined in no source file at hand: the shadow ray
\* is occluded when the object is hit at all.
ray_intersects_sphere(p0, d, c, r) ==
    intersect_ray_sphere(p0, d, c, r, MinTInit).kind = "some"

ray_intersects_triangle(rorg, rdir, t0, t1, t2) ==
    intersect_ray_triangle(rorg, rdir, t0, t1, t2, MinTInit).kind = "some"

\* The state of the nearest-hit search.
SearchInit ==
    [closest |-> None, closest_sp_index |-> -1, closest_mesh_index |-> -1,
     min_t |-> MinTInit, panic |-> FALSE]

\* SphereNearer that also takes a hit that is as near as the closest one
SphereNearerOrEqual(st, i, inter) ==
    IF inter.kind = "some" /\ inter.ray_t <= st.min_t
    THEN [st EXCEPT !.min_t = inter.ray_t, !.closest = inter, !.closest_sp_index = i]
    ELSE st

\* The body of the sphere loop after the intersection: a nearer hit
\* becomes the closest one
SphereNearer(st, i, inter) ==
    IF inter.kind = "some" /\ inter.ray_t < st.min_t
    THEN [st EXCEPT !.min_t = inter.ray_t, !.closest = inter, !.closest_sp_index = i]
    ELSE st

\* for i in 0..spheres.len()
RECURSIVE SphereLoop(_, _, _, _, _)
SphereLoop(ray_org, ray_dir, spheres, i, st) ==
    Now(st,
        IF i >= Len(spheres) THEN st
        ELSE SphereLoop(ray_org, ray_dir, spheres, i + 1,
                        SphereNearer(st, i,
                            intersect_ray_sphere(ray_org, ray_dir, spheres[i + 1].center,
                                                 spheres[i + 1].radius, st.min_t))))

\* The body of the triangle loop after the intersection; a failed assert!
\* of intersect_ray_triangle is the panic of the search
TriNearer(st, i, inter) ==
    IF inter.kind = "panic" THEN [st EXCEPT !.panic = TRUE]
    ELSE IF inter.kind = "some" /\ inter.ray_t < st.min_t
    THEN [st EXCEPT !.min_t = inter.ray_t, !.closest = inter,
                    !.closest_mesh_index = i, !.closest_sp_index = -1]
    ELSE st

\* for tri in &mesh.triangles, for mesh i; a panic ends the search
RECURSIVE TriLoop(_, _, _, _, _, _)
TriLoop(ray_org, ray_dir, tris, i, j, st) ==
    Now(st,
        IF j >= Len(tris) \/ st.panic THEN st
        ELSE TriLoop(ray_org, ray_dir, tris, i, j + 1,
                     TriNearer(st, i,
                         intersect_ray_triangle(ray_org, ray_dir, tris[j + 1].v1,
                                                tris[j + 1].v2, tris[j + 1].v3, st.min_t))))

\* for i in 0..meshes.len()
RECURSIVE MeshLoop(_, _, _, _, _)
MeshLoop(ray_org, ray_dir, meshes, i, st) ==
    Now(st,
        IF i >= Len(meshes) \/ st.panic THEN st
        ELSE MeshLoop(ray_org, ray_dir, meshes, i + 1,
                      TriLoop(ray_org, ray_dir, meshes[i + 1].triangles, i, 0, st)))

\* The material id of the closest object ("" when neither index is set).
MatName(scene, st) ==
    IF st.closest_sp_index >= 0
    THEN scene.spheres[st.closest_sp_index + 1].material
    ELSE IF st.closest_mesh_index >= 0
    THEN scene.meshes[st.closest_mesh_index + 1].material
    ELSE ""

\* for mat in &scene.materials: the first material with the id, as its
\* position in the sequence; 0 stands for None.
FindMaterial(materials, mat_name) ==
    LET found == {m \in 1..Len(materials) : materials[m].id = mat_name}
    IN  IF found = {} THEN 0
        ELSE CHOOSE m \in found : \A o \in found : m <= o

\* The two shadow loops of a light: some sphere other than the closest
\* one, or some triangle of some mesh, is hit by the ray.
InShadow(scene, pos, dir, closest_sp_index) ==
    \/ \E l \in 0..(Len(scene.spheres) - 1) :
          /\ l # closest_sp_index
          /\ ray_intersects_sphere(pos, dir, scene.spheres[l + 1].center,
                                   scene.spheres[l + 1].radius)
    \/ \E m \in 1..Len(scene.meshes) :
          \E t \in 1..Len(scene.meshes[m].triangles) :
             LET tr == scene.meshes[m].triangles[t]
             IN  ray_intersects_triangle(pos, dir, tr.v1, tr.v2, tr.v3)

\* for _sample in 0..light.samples: v counts the unoccluded samples
RECURSIVE SampleLoop(_, _, _, _, _, _, _, _)

\* One turn of the sample loop, with rand_pos drawn
SampleTurn(scene, inter, closest_sp_index, light, rs, s, v, rand_pos) ==
    Now(rand_pos,
        SampleLoop(scene, inter, closest_sp_index, light, rs, rand_pos.k, s + 1,
                   IF ~InShadow(scene, inter.pos, VSub(rand_pos.v, inter.pos),
                                closest_sp_index)
                   THEN v + Unit ELSE v))

SampleLoop(scene, inter, closest_sp_index, light, rs, k, s, v) ==
    IF Now(v, s >= light.samples) THEN [v |-> v, k |-> k]
    ELSE SampleTurn(scene, inter, closest_sp_index, light, rs, s, v,
                    random_point_on_sphere(rs, k, light.position, light.radius))

\* SampleMean that divides by one more than the number of samples
SampleMeanOneMore(sm, samples) == [v |-> FDiv(sm.v, (samples + 1) * Unit), k |-> sm.k]

\* v /= light.samples as f64, of the sample loop's result sm
SampleMean(sm, samples) == [v |-> FDiv(sm.v, samples * Unit), k |-> sm.k]

\* The visibility of one light before attenuation: [v, k].  (A sphere
\* light has samples >= 1 in the scenes of the model; 0.0 / 0.0 is NaN.)
LightVisibility(scene, inter, closest_sp_index, light, rs, k) ==
    IF light.ltype = "Point"
    THEN [v |-> IF InShadow(scene, inter.pos,
                            normalize(VSub(light.position, inter.pos)),
                            closest_sp_index)
                THEN 0 ELSE Unit,
          k |-> k]
    ELSE IF light.ltype = "Sphere"
    THEN SampleMean(SampleLoop(scene, inter, closest_sp_index, light, rs, k, 0, 0),
                    light.samples)
    ELSE [v |-> 0, k |-> k]

\* diffuse + specular, with the albedo and fresnel arguments 0.01
Shading(l, n, v, rough) ==
    shade_oren_nayar(l, n, v, rough, 10) + shade_cook_torrance(l, v, n, rough, 10)

\* light_intens = ratio * ratio * v * light.intensity
LightIntens(ratio, v, intensity) == FMul(FMul(FMul(ratio, ratio), v), intensity)

\* light_total = shading * light_intens of one light, with its
\* visibility v
LightTotal(light, inter, vdir, mat, v) ==
    FMul(Shading(normalize(VSub(light.position, inter.pos)), inter.normal, vdir,
                 mat.roughness),
         LightIntens(FDiv(light.radius, len(VSub(light.position, inter.pos))), v,
                     light.intensity))

\* lcolor += color * light_total
AddLight(lcolor, color, light_total) ==
    Color(lcolor.r + FMul(color.r, light_total),
          lcolor.g + FMul(color.g, light_total),
          lcolor.b + FMul(color.b, light_total))

\* for light in &scene.lights: [lcolor, k]
RECURSIVE LightLoop(_, _, _, _, _, _, _, _, _)

\* One turn of the light loop, with the visibility vis of the light
LightTurn(scene, inter, vdir, mat, closest_sp_index, rs, i, lcolor, light, vis) ==
    Now(vis,
        LightLoop(scene, inter, vdir, mat, closest_sp_index, rs, vis.k, i + 1,
                  AddLight(lcolor, light.color, LightTotal(light, inter, vdir, mat, vis.v))))

LightLoop(scene, inter, vdir, mat, closest_sp_index, rs, k, i, lcolor) ==
    IF Now(lcolor, i >= Len(scene.lights)) THEN [lcolor |-> lcolor, k |-> k]
    ELSE LightTurn(scene, inter, vdir, mat, closest_sp_index, rs, i, lcolor,
                   scene.lights[i + 1],
                   LightVisibility(scene, inter, closest_sp_index,
                                   scene.lights[i + 1], rs, k))

\* What trace returns: the colour, the position of the generator after
\* the call, "ok" or "panic", and a record of every call of trace made
\* (this call first): its depth, ray, the branch it took, the colour it
\* returned, the lights it evaluated and the recursive calls it made.
Ret(color, k, status, log) ==
    [color |-> color, k |-> k, status |-> status, log |-> log]

Call(depth, ray_org, ray_dir, kind, color, lights, bounces) ==
    [depth |-> depth, ray_org |-> ray_org, ray_dir |-> ray_dir, kind |-> kind,
     color |-> color, lights |-> lights, bounces |-> bounces]

\* TraceSky that copies the red channel into all three.
TraceSkyRedOnly(scene) ==
    Color(scene.skycolor.r, scene.skycolor.r, scene.skycolor.r)

\* The no-hit branch: result = scene.skycolor, channel by channel.
TraceSky(scene) ==
    Color(scene.skycolor.r, scene.skycolor.g, scene.skycolor.b)

\* TraceNoMaterial that unwraps the missing material.
TraceNoMaterialUnwrap(ray_org, ray_dir, k, depth) ==
    Ret(Color(0, 0, 0), k, "panic",
        <<Call(depth, ray_org, ray_dir, "nomat", Color(0, 0, 0), 0, 0)>>)

\* The branch of a hit whose material id is in no material: the message
\* "Material not found" and black; "ok" says that the call returns.
TraceNoMaterial(ray_org, ray_dir, k, depth) ==
    Ret(Color(0, 0, 0), k, "ok",
        <<Call(depth, ray_org, ray_dir, "nomat", Color(0, 0, 0), 0, 0)>>)

\* lcolor after the indirect term, as main.rs 394-396 compute it
AddPath(lcolor, path_color, shading) ==
    Color(lcolor.r + FMul(path_color.r, shading),
          lcolor.g + FMul(path_color.r, shading),
          lcolor.b + FMul(path_color.r, shading))

\* result = mat.color * lcolor, channel by channel
Modulate(color, lcolor) ==
    Color(FMul(color.r, lcolor.r), FMul(color.g, lcolor.g), FMul(color.b, lcolor.b))

\* The return of a call of trace that took the branch kind: its colour,
\* and its record before the records sublog of the calls it made.
Return(ray_org, ray_dir, depth, kind, color, k, status, lights, bounces, sublog) ==
    Now(color,
        Ret(color, k, status,
            <<Call(depth, ray_org, ray_dir, kind, color, lights, bounces)>> \o sublog))

RECURSIVE trace(_, _, _, _, _, _)

\* trace after the recursive call: sub is what trace returned for the
\* path ray
TraceResult(ray_org, ray_dir, scene, depth, inter, vdir, mat, lit, path_dir, sub) ==
    IF sub.status = "panic"
    THEN Return(ray_org, ray_dir, depth, "panic", black, sub.k, "panic",
                Len(scene.lights), 1, sub.log)
    ELSE Return(ray_org, ray_dir, depth, "shaded",
                Modulate(mat.color,
                         AddPath(lit.lcolor, sub.color,
                                 Shading(path_dir, inter.normal, vdir, mat.roughness))),
                sub.k, "ok", Len(scene.lights), 1, sub.log)

\* TracePath that passes depth + 2 to the recursive call
TracePathSkipsDepth(ray_org, ray_dir, scene, rs, k, depth, inter, vdir, mat, lit, path_dir) ==
    Now(path_dir,
        TraceResult(ray_org, ray_dir, scene, depth, inter, vdir, mat, lit, path_dir,
                    trace(inter.pos, path_dir, scene, rs, k, depth + 2)))

\* trace from the recursive call on, with path_dir normalized
TracePath(ray_org, ray_dir, scene, rs, k, depth, inter, vdir, mat, lit, path_dir) ==
    Now(path_dir,
        TraceResult(ray_org, ray_dir, scene, depth, inter, vdir, mat, lit, path_dir,
                    trace(inter.pos, path_dir, scene, rs, k, depth + 1)))

\* trace after the light loop: hemi is the point drawn on the hemisphere
\* of the normal
TraceBounce(ray_org, ray_dir, scene, rs, depth, inter, vdir, mat, lit, hemi) ==
    Now(hemi,
        TracePath(ray_org, ray_dir, scene, rs, hemi.k, depth, inter, vdir, mat, lit,
                  normalize(hemi.v)))

\* trace after the light loop, whose result is lit
TraceLit(ray_org, ray_dir, scene, rs, depth, inter, vdir, mat, lit) ==
    Now(lit,
        TraceBounce(ray_org, ray_dir, scene, rs, depth, inter, vdir, mat, lit,
                    random_point_on_hemisphere(rs, lit.k, inter.normal)))

\* The branch of a hit with its material mat, and vdir computed
TraceMaterial(ray_org, ray_dir, scene, rs, k, depth, st, vdir, mat) ==
    Now(<<vdir, mat>>,
        TraceLit(ray_org, ray_dir, scene, rs, depth, st.closest, vdir, mat,
                 LightLoop(scene, st.closest, vdir, mat, st.closest_sp_index, rs, k, 0,
                           black)))

\* The branch of a hit: material is the position of the material found,
\* 0 when none is
TraceHit(ray_org, ray_dir, scene, rs, k, depth, st, material) ==
    IF material # 0
    THEN TraceMaterial(ray_org, ray_dir, scene, rs, k, depth, st,
                       normalize(VSub(ray_org, st.closest.pos)),
                       scene.materials[material])
    ELSE TraceNoMaterial(ray_org, ray_dir, k, depth)

\* trace after the nearest-hit search, whose result is st
TraceClosest(ray_org, ray_dir, scene, rs, k, depth, st) ==
    IF st.panic
    THEN Return(ray_org, ray_dir, depth, "panic", black, k, "panic", 0, 0, <<>>)
    ELSE IF st.closest.kind = "some"
    THEN TraceHit(ray_org, ray_dir, scene, rs, k, depth, st,
                  FindMaterial(scene.materials, MatName(scene, st)))
    ELSE Return(ray_org, ray_dir, depth, "sky", TraceSky(scene), k, "ok", 0, 0, <<>>)

trace(ray_org, ray_dir, scene, rs, k, depth) ==
    IF depth > scene.max_depth
    THEN Return(ray_org, ray_dir, depth, "limit", black, k, "ok", 0, 0, <<>>)
    ELSE TraceClosest(ray_org, ray_dir, scene, rs, k, depth,
                      MeshLoop(ray_org, ray_dir, scene.meshes, 0,
                               SphereLoop(ray_org, ray_dir, scene.spheres, 0,
                                          SearchInit)))

(***************************************************************************)
(* The scenes of the model: what load_settings may return.                 *)
(***************************************************************************)
Vertex(x, y, z, n) == [pos |-> VNew(x, y, z), normal |-> n]

MatRed == [id |-> "red", color |-> Color(1000, 500, 250), roughness |-> 500]

PointLight ==
    [ltype |-> "Point", position |-> VNew(0, 4000, 0), color |-> Color(1000, 1000, 1000),
     radius |-> 2000, samples |-> 1, intensity |-> 2000]

SphereLight ==
    [ltype |-> "Sphere", position |-> VNew(0, 3000, 1000), color |-> Color(1000, 1000, 500),
     radius |-> 1000, samples |-> 2, intensity |-> 2000]

\* A triangle in the plane z = 4 whose front faces the camera.
FrontTriangle ==
    [v1 |-> Vertex(-3000, -3000, 4000, Vec(0, 0, -Unit, 0)),
     v2 |-> Vertex(0, 3000, 4000, Vec(0, 0, -Unit, 0)),
     v3 |-> Vertex(3000, -3000, 4000, Vec(0, 0, -Unit, 0))]

MakeScene(materials, spheres, meshes, lights) ==
    [materials |-> materials, spheres |-> spheres, meshes |-> meshes,
     voxels |-> <<>>, lights |-> lights, skycolor |-> Color(200, 300, 400),
     max_depth |-> 1, path_samples |-> 1]

\* Scene::objects: the spheres, the meshes and the voxel volumes of the
\* scene, each as the kind of the object and its index in its Vec
objects(scn) ==
    [i \in 1..Len(scn.spheres) |-> <<"sphere", i - 1>>]
       \o [i \in 1..Len(scn.meshes) |-> <<"mesh", i - 1>>]
       \o [i \in 1..Len(scn.voxels) |-> <<"voxels", i - 1>>]

\* let mut center, radius, mat_id of read_spheres: what a sphere is when
\* its JSON object names no field
SphereDefault == [center |-> Vec(0, 0, 0, 0), radius |-> Unit, material |-> "_default"]

\* for f in fields of read_spheres: a field is <<name, value>>; a later
\* field of the same name replaces an earlier one, another name is skipped
RECURSIVE ReadSphereFields(_, _, _)
ReadSphereFields(fields, i, sp) ==
    IF i > Len(fields) THEN sp
    ELSE ReadSphereFields(fields, i + 1,
            IF fields[i][1] = "center"
            THEN [sp EXCEPT !.center = VNew(fields[i][2][1], fields[i][2][2],
                                            fields[i][2][3])]
            ELSE IF fields[i][1] = "radius" THEN [sp EXCEPT !.radius = fields[i][2]]
            ELSE IF fields[i][1] = "material" THEN [sp EXCEPT !.material = fields[i][2]]
            ELSE sp)

\* read_spheres: one Sphere for every object of the JSON array, its
\* material id stored as it is written
read_spheres(spheres) ==
    [i \in 1..Len(spheres) |-> ReadSphereFields(spheres[i], 1, SphereDefault)]

\* No object at all.
SceneEmpty == MakeScene(<<MatRed>>, read_spheres(<<>>), <<>>, <<PointLight>>)

\* One sphere with a material of the scene, under a point light.
SceneSphere ==
    MakeScene(<<MatRed>>,
              read_spheres(<< <<
                  <<"center", <<0, 0, 5000>> >>, <<"radius", 2000>>,
                  <<"material", "red">> >> >>),
              <<>>, <<PointLight>>)

\* A sphere over part of the image that names a material which is in no
\* entry of materials.
SceneNoMat ==
    MakeScene(<<MatRed>>,
              read_spheres(<< <<
                  <<"center", <<-1500, -1000, 5000>> >>, <<"radius", 1000>>,
                  <<"material", "gone">> >> >>),
              <<>>, <<PointLight>>)

\* A one-triangle mesh behind a small sphere, under a sphere light.
SceneMesh ==
    MakeScene(<<MatRed>>,
              read_spheres(<< <<
                  <<"material", "red">>, <<"radius", 500>>,
                  <<"center", <<0, 1000, 3000>> >> >> >>),
              <<[triangles |-> <<FrontTriangle>>, material |-> "red"]>>,
              <<SphereLight>>)

Scenes == {SceneEmpty, SceneSphere, SceneNoMat, SceneMesh}

(***************************************************************************)
(* The render (main.rs, main)                                              *)
(***************************************************************************)
\* settings.output.height, settings.output.width, settings.output.samples
ImgH == 3
ImgW == 2
Samples == 2

\* num_cpus::get()
NumCpus == 2

Rows == 0..(ImgH - 1)
Passes == 0..(Samples - 1)
Workers == Passes \X Rows

\* The entropy rand::thread_rng() may hand to one thread.
Streams == {<<0, 250>>, <<500, 750>>}

cam_pos == Vec(0, 0, 0, Unit)
img_plane_dist == Unit
img_ratio == FDiv(ImgW * Unit, ImgH * Unit)
img_plane_w == FDiv(img_plane_dist, 2 * Unit)
img_plane_h == FDiv(img_plane_w, img_ratio)
img_plane_l == cam_pos.x - FDiv(img_plane_w, 2 * Unit)
img_plane_b == cam_pos.y - FDiv(img_plane_h, 2 * Unit)
img_pix_inc_h == FDiv(img_plane_w, ImgW * Unit)
img_pix_inc_v == FDiv(img_plane_h, ImgH * Unit)

\* Seed with the pass index scaled by the image height: one seed for each
\* (pass, row).
SeedOfPair(w) == 31 + w[1] * ImgH + w[2]

\* Random::new(31 + sample + iy) of the worker w = (sample, iy)
Seed(w) == 31 + w[1] + w[2]

\* What a worker has computed: the colours pushed so far, the first call
\* record of each trace, the numbers drawn, and "panic" when a trace
\* panicked (the thread then unwinds before it sends).
Row(colors, calls, k, status) ==
    [kind |-> "row", colors |-> colors, calls |-> calls, k |-> k, status |-> status]
NoRow == [kind |-> "norow"]

\* for _ix in 0..img_w of the worker closure
RECURSIVE PixelLoop(_, _, _, _, _, _, _, _)

\* The body of the pixel loop after trace has returned ret
PixelTraced(scn, rs, ix, px, wpy, colors, calls, ret) ==
    IF ret.status = "panic"
    THEN Row(colors, Append(calls, ret.log[1]), ret.k, "panic")
    ELSE PixelLoop(scn, rs, ret.k, ix + 1, px + img_pix_inc_h, wpy,
                   Append(colors, ret.color), Append(calls, ret.log[1]))

\* The body of the pixel loop with the two numbers d1, d2 drawn
PixelDrawn(scn, rs, ix, px, wpy, colors, calls, d1, d2) ==
    Now(d2,
        PixelTraced(scn, rs, ix, px, wpy, colors, calls,
                    trace(cam_pos,
                          VSub(Vec(px + FMul(d1.val - Unit \div 2, img_pix_inc_h),
                                   wpy + FMul(d2.val - Unit \div 2, img_pix_inc_v),
                                   img_plane_dist, 0),
                               cam_pos),
                          scn, rs, d2.k, 0)))

\* The body of the pixel loop with the first number d1 drawn
PixelDraw(scn, rs, ix, px, wpy, colors, calls, d1) ==
    Now(d1,
        PixelDrawn(scn, rs, ix, px, wpy, colors, calls, d1, random_f(rs, d1.k)))

PixelLoop(scn, rs, k, ix, px, wpy, colors, calls) ==
    IF Now(<<colors, calls>>, ix >= ImgW) THEN Row(colors, calls, k, "ok")
    ELSE PixelDraw(scn, rs, ix, px, wpy, colors, calls, random_f(rs, k))

\* The body of the closure up to the send: the row of colours.
RenderRow(scn, rs, wpy) == PixelLoop(scn, rs, 0, 0, img_plane_l, wpy, <<>>, <<>>)

\* py at the spawn of row r: img_plane_b, moved up by img_pix_inc_v for
\* every row dispatched before it
RowPy(r) == img_plane_b + r * img_pix_inc_v

\* RenderRow of a scene, tabulated over the entropy and the row heights
Rendered(scn) ==
    [rs \in Streams, wpy \in {RowPy(r) : r \in Rows} |-> RenderRow(scn, rs, wpy)]

\* AddRow that stores the new colours over the old ones.
AddRowOverwrite(orig, new) ==
    [l \in 1..Len(orig) |-> IF l <= Len(new) THEN new[l] ELSE orig[l]]

\* for l in 0..new.len(): orig[l] += new[l]
AddRow(orig, new) ==
    [l \in 1..Len(orig) |->
        IF l <= Len(new)
        THEN Color(orig[l].r + new[l].r, orig[l].g + new[l].g, orig[l].b + new[l].b)
        ELSE orig[l]]

\* Accumulate that adds the result into the row after the one it names.
AccumulateNextRow(ls, result) ==
    [ls EXCEPT ![((result.line + 1) % ImgH) + 1] = AddRow(@, result.colors)]

\* lines after the result (line, colors) is added into it
Accumulate(ls, result) ==
    [ls EXCEPT ![result.line + 1] = AddRow(@, result.colors)]

\* convert: dither by the drawn number rv, clamp to [0, 1], scale to a byte
convert(v, rv) ==
    LET r == 2 * rv - Unit
        noisy == v + TDiv(r, 512)
        clamped == IF noisy < 0 THEN 0 ELSE IF noisy > Unit THEN Unit ELSE noisy
    IN  (clamped * 255 + Unit \div 2) \div Unit

\* The divisor of the convert loop: (samplesi + 1) as f64
SampleF(samplesi) == (samplesi + 1) * Unit

\* The values handed to convert, in the order b, g, r of every pixel of
\* every line.
ConvertInputs(ls, sf) ==
    [i \in 1..(ImgH * ImgW * 3) |->
        LET p == (i - 1) \div 3
            col == ls[(p \div ImgW) + 1][(p % ImgW) + 1]
            c == (i - 1) % 3
        IN  FDiv(IF c = 0 THEN col.b ELSE IF c = 1 THEN col.g ELSE col.r, sf)]

VARIABLES
    scene,        \* settings.scene
    pc,           \* where the main thread is
    sample,       \* the pass of the for loop
    iy,           \* the next row to dispatch
    py,           \* the image-plane height of row iy
    num_threads,  \* workers spawned and not yet collected
    lines,        \* the accumulation buffer
    chan,         \* the messages sent on tx and not yet received on rx
    worker,       \* the thread of each (pass, row): state, py, out, rs
    rendered,     \* the rows the closure computes from this scene
    samplef,      \* the divisor of the convert loop
    conv_in,      \* the values handed to convert
    pixels,       \* the bytes handed to write_tga
    added,        \* for each row, the passes added into lines, in order
    spawns,       \* for each (pass, row), the threads spawned for it
    t_in,         \* the arguments of a single call of trace or of a routine
    t_out         \* and what it returned

vars == <<scene, pc, sample, iy, py, num_threads, lines, chan, worker, rendered,
          samplef, conv_in, pixels, added, spawns, t_in, t_out>>

NoCall == [kind |-> "nocall"]

RenderInit ==
    /\ pc = "pass"
    /\ sample = 0
    /\ iy = 0
    /\ py = img_plane_b
    /\ num_threads = 0
    /\ lines = [r \in 1..ImgH |-> [x \in 1..ImgW |-> black]]
    /\ chan = <<>>
    /\ worker = [w \in Workers |->
                   [state |-> "idle", py |-> 0, out |-> NoRow, rs |-> <<>>]]
    /\ samplef = 0
    /\ conv_in = <<>>
    /\ pixels = <<>>
    /\ added = [r \in Rows |-> <<>>]
    /\ spawns = [w \in Workers |-> 0]

Init ==
    /\ scene \in Scenes
    /\ rendered = Rendered(scene)
    /\ RenderInit
    /\ t_in = NoCall
    /\ t_out = NoCall

TraceVars == <<t_in, t_out>>
Ghosts == <<added, spawns>>
Output == <<samplef, conv_in, pixels>>
Given == <<scene, rendered>>

\* for sample in 0..samplesi: the head of one pass, up to the test of
\* while iy < img_h.  The channel of the pass is new and empty.
StartPass ==
    /\ pc = "pass"
    /\ sample < Samples
    /\ py' = img_plane_b
    /\ num_threads' = 0
    /\ iy' = 0
    /\ chan' = <<>>
    /\ pc' = IF 0 < ImgH THEN "dispatch" ELSE "drain"
    /\ UNCHANGED <<Given, sample, lines, worker, Output, Ghosts, TraceVars>>

\* MaySpawn with <= for <.
MaySpawnOneMore == num_threads <= NumCpus /\ iy < ImgH

\* while num_threads < numcpus && iy < img_h
MaySpawn == num_threads < NumCpus /\ iy < ImgH

\* One turn of the inner while: thread::spawn with the row liy = iy and
\* the height py moved into the closure.
Spawn ==
    /\ pc = "dispatch"
    /\ MaySpawn
    /\ worker' = [worker EXCEPT ![<<sample, iy>>] =
                     [state |-> "running", py |-> py, out |-> NoRow, rs |-> <<>>]]
    /\ spawns' = [spawns EXCEPT ![<<sample, iy>>] = @ + 1]
    /\ num_threads' = num_threads + 1
    /\ py' = py + img_pix_inc_v
    /\ iy' = iy + 1
    /\ UNCHANGED <<Given, pc, sample, lines, chan, Output, added, TraceVars>>

\* The inner while ends; the first rx.try_recv() is next.
EndSpawn ==
    /\ pc = "dispatch"
    /\ ~MaySpawn
    /\ pc' = "poll"
    /\ UNCHANGED <<Given, sample, iy, py, num_threads, lines, chan, worker,
                   Output, Ghosts, TraceVars>>

\* Collect that adds the result and leaves num_threads as it is.
CollectUncounted ==
    /\ lines' = Accumulate(lines, Head(chan))
    /\ added' = [added EXCEPT ![Head(chan).line] = Append(@, sample)]
    /\ chan' = Tail(chan)
    /\ num_threads' = num_threads

\* Collect that takes the result off the channel and adds nothing.
CollectDropped ==
    /\ lines' = lines
    /\ added' = added
    /\ chan' = Tail(chan)
    /\ num_threads' = num_threads - 1

\* A received result is added into lines and its thread is counted off.
Collect ==
    /\ lines' = Accumulate(lines, Head(chan))
    /\ added' = [added EXCEPT ![Head(chan).line] = Append(@, sample)]
    /\ chan' = Tail(chan)
    /\ num_threads' = num_threads - 1

\* rx.try_recv() is Ok: one turn of while rxv.is_ok()
PollOk ==
    /\ pc = "poll"
    /\ chan # <<>>
    /\ Collect
    /\ UNCHANGED <<Given, pc, sample, iy, py, worker, Output, spawns, TraceVars>>

\* rx.try_recv() is Err(Empty): back to the test of while iy < img_h
PollEmpty ==
    /\ pc = "poll"
    /\ chan = <<>>
    /\ pc' = IF iy < ImgH THEN "dispatch" ELSE "drain"
    /\ UNCHANGED <<Given, sample, iy, py, num_threads, lines, chan, worker,
                   Output, Ghosts, TraceVars>>

\* One turn of while num_threads > 0: rx.recv() returns when a message is
\* in the channel and blocks while there is none.  (main keeps tx until
\* the end of the pass, so recv never reports a disconnected channel.)
DrainRecv ==
    /\ pc = "drain"
    /\ num_threads > 0
    /\ chan # <<>>
    /\ Collect
    /\ UNCHANGED <<Given, pc, sample, iy, py, worker, Output, spawns, TraceVars>>

\* EndPass without the blocking loop while num_threads > 0 before it.
EndPassUndrained ==
    /\ pc = "drain"
    /\ sample' = sample + 1
    /\ pc' = "pass"
    /\ UNCHANGED <<Given, iy, py, num_threads, lines, chan, worker, Output,
                   Ghosts, TraceVars>>

\* num_threads = 0: the pass ends, the for loop goes to the next sample
EndPass ==
    /\ pc = "drain"
    /\ ~(num_threads > 0)
    /\ sample' = sample + 1
    /\ pc' = "pass"
    /\ UNCHANGED <<Given, iy, py, num_threads, lines, chan, worker, Output,
                   Ghosts, TraceVars>>

\* After the last pass: the convert loop.  The dither generator draws
\* from the entropy ds of the main thread.
Convert ==
    /\ pc = "pass"
    /\ ~(sample < Samples)
    /\ \E ds \in Streams :
          LET sf == SampleF(Samples)
              ins == ConvertInputs(lines, sf)
          IN  /\ samplef' = sf
              /\ conv_in' = ins
              /\ pixels' = [i \in 1..Len(ins) |->
                               convert(ins[i], random_f(ds, i - 1).val)]
    /\ pc' = "write"
    /\ UNCHANGED <<Given, sample, iy, py, num_threads, lines, chan, worker,
                   Ghosts, TraceVars>>

\* tga::write_tga(filename, img_w, img_h, pixels)
WriteTga ==
    /\ pc = "write"
    /\ pc' = "done"
    /\ UNCHANGED <<Given, sample, iy, py, num_threads, lines, chan, worker,
                   Output, Ghosts, TraceVars>>

\* The thread of w computes its row, drawing from the entropy rs.
WorkerCompute(w) ==
    /\ worker[w].state = "running"
    /\ \E rs \in Streams :
          LET out == rendered[rs, worker[w].py]
          IN  worker' = [worker EXCEPT ![w] =
                  [@ EXCEPT !.out = out, !.rs = rs,
                            !.state = IF out.status = "panic" THEN "panicked"
                                      ELSE "computed"]]
    /\ UNCHANGED <<Given, pc, sample, iy, py, num_threads, lines, chan, Output,
                   Ghosts, TraceVars>>

\* ltx.send((liy, colors)).unwrap(): rx lives as long as the pass.  The
\* field pass is no part of the message: it records the pass whose
\* closure sent it.
WorkerSend(w) ==
    /\ worker[w].state = "computed"
    /\ chan' = Append(chan, [line |-> w[2], colors |-> worker[w].out.colors,
                             pass |-> w[1]])
    /\ worker' = [worker EXCEPT ![w].state = "sent"]
    /\ UNCHANGED <<Given, pc, sample, iy, py, num_threads, lines, Output,
                   Ghosts, TraceVars>>

\* The thread of w panics before the send (a failed assert! or unwrap, an
\* allocation that fails): it unwinds, its sender is dropped, nothing is
\* sent.
WorkerPanic(w) ==
    /\ worker[w].state = "running"
    /\ worker' = [worker EXCEPT ![w].state = "panicked"]
    /\ UNCHANGED <<Given, pc, sample, iy, py, num_threads, lines, chan, Output,
                   Ghosts, TraceVars>>

MainStep ==
    \/ StartPass
    \/ Spawn
    \/ EndSpawn
    \/ PollOk
    \/ PollEmpty
    \/ DrainRecv
    \/ EndPass
    \/ Convert
    \/ WriteTga

WorkerStep == \E w \in Workers : WorkerCompute(w) \/ WorkerSend(w)

Next ==
    \/ MainStep
    \/ WorkerStep
    \/ \E w \in Workers : WorkerPanic(w)

Spec == Init /\ [][Next]_vars

\* The render in which no thread panics, the main thread and the worker
\* threads each scheduled again and again while they can take a step.
NextLive == MainStep \/ WorkerStep

LiveSpec == Init /\ [][NextLive]_vars /\ WF_vars(MainStep) /\ WF_vars(WorkerStep)

(***************************************************************************)
(* A single call of trace, on arguments drawn from bounded sets.           *)
(***************************************************************************)
\* Ray directions through and around the image plane (w = 0 - 1 as the
\* difference of a direction and the camera position).
RayCoords == {-600, -300, 0, 300, 600}
TraceDirs == {Vec(x, y, Unit, -Unit) : x \in RayCoords, y \in RayCoords}

\* The depths of the calls: up to one past max_depth of the scenes.
TraceDepths == 0..2

TraceInputs ==
    [ray_org : {cam_pos}, ray_dir : TraceDirs, rs : Streams, depth : TraceDepths]

\* SceneMesh as read_scene makes it of max_trace_depth 0: with no path
\* samples.
SceneShallow == [SceneMesh EXCEPT !.max_depth = 0, !.path_samples = 0]

\* Two spheres that face each other, one before the camera and one to its
\* right, with max_trace_depth 2 and path_samples 3.
SceneFacing ==
    [MakeScene(<<MatRed>>,
               read_spheres(<< << <<"center", <<0, 0, 5000>> >>, <<"radius", 2000>>,
                                  <<"material", "red">> >>,
                               << <<"center", <<4000, 0, 1000>> >>, <<"radius", 1500>>,
                                  <<"material", "red">> >> >>),
               <<>>, <<PointLight>>)
        EXCEPT !.max_depth = 2, !.path_samples = 3]

TraceScenes == Scenes \cup {SceneShallow, SceneFacing}

TraceInit ==
    /\ scene \in TraceScenes
    /\ rendered = <<>>
    /\ RenderInit
    /\ t_in \in TraceInputs
    /\ t_out = NoCall

\* trace(&ray_org, &ray_dir, &scene, &mut random, depth)
TraceCall ==
    /\ t_out = NoCall
    /\ t_out' = trace(t_in.ray_org, t_in.ray_dir, scene, t_in.rs, 0, t_in.depth)
    /\ UNCHANGED <<Given, pc, sample, iy, py, num_threads, lines, chan, worker,
                   Output, Ghosts, t_in>>

TraceNext == TraceCall

TraceSpec == TraceInit /\ [][TraceNext]_vars

(***************************************************************************)
(* The octree of a mesh (octree.rs) and the box tests it uses (linear.rs)  *)
(*                                                                         *)
(* An f64 quotient with a zero divisor is an infinity or a NaN: Inf and    *)
(* -Inf lie beyond every finite quotient of the model, and every           *)
(* comparison with NaN is false.  The zero components of a direction are   *)
(* -0.0 when nz holds and 0.0 otherwise.                                   *)
(*                                                                         *)
(* The tree is read-only once it is built, so a node is kept as what       *)
(* build_octree_rec is called with for it (its box, the list of its        *)
(* parent and its depth); NodeTris and ChildNode compute from that what    *)
(* build_octree_rec stores in the node, where the query reads it.          *)
(***************************************************************************)

\* An f64 has a significand of 53 bits, and a sum that needs more is
\* rounded to the nearest f64, a tie to the even significand.  The model
\* keeps 12 bits: every number below 4.096 is exact to the thousandth,
\* and ulp(a, 1) is the spacing of the numbers at the magnitude a.
RECURSIVE ulp(_, _)
ulp(a, u) == IF a < 4096 * u THEN u ELSE ulp(a, 2 * u)

\* The multiple of u nearest to a >= 0, a tie to the even multiple
Nearest(a, u) ==
    IF 2 * (a % u) > u \/ (2 * (a % u) = u /\ (a \div u) % 2 = 1)
    THEN ((a \div u) + 1) * u
    ELSE (a \div u) * u

Rounded(x) == IF x < 0 THEN -Nearest(-x, ulp(-x, 1)) ELSE Nearest(x, ulp(x, 1))

\* a + b and a - b of f64: NaN of a NaN and of inf - inf, an infinity of
\* an infinity and of a sum beyond f64::MAX, else the rounded sum
FSum(a, b) ==
    IF a = NaN \/ b = NaN THEN NaN
    ELSE IF Abs(a) = Inf THEN (IF b = -a THEN NaN ELSE a)
    ELSE IF Abs(b) = Inf THEN b
    ELSE IF a + b > F64Max THEN Inf
    ELSE IF a + b < -F64Max THEN -Inf
    ELSE Rounded(a + b)

FDiff(a, b) == IF b = NaN THEN NaN ELSE FSum(a, -b)

\* a / 2.0 of f64
FHalf(a) == IF a = NaN \/ Abs(a) = Inf THEN a ELSE FDiv(a, 2 * Unit)

\* a / b of f64
Quot(a, b, nz) ==
    IF b # 0 THEN FDiv(a, b)
    ELSE IF a = 0 THEN NaN
    ELSE IF (a > 0) # nz THEN Inf
    ELSE -Inf

\* if lo > hi { swap }
SwapLo(lo, hi) == IF Gt(lo, hi) THEN hi ELSE lo
SwapHi(lo, hi) == IF Gt(lo, hi) THEN lo ELSE hi

\* ray_intersects_aabb from the z interval on
AabbZ(tmin, tmax, tzmin, tzmax) ==
    ~(Gt(tmin, tzmax) \/ Gt(tzmin, tmax))

\* ray_intersects_aabb from the test of the x and y intervals on
AabbXY(rorg, rdir, nz, min, max, tmin, tmax, tymin, tymax) ==
    IF Gt(tmin, tymax) \/ Gt(tymin, tmax) THEN FALSE
    ELSE AabbZ(IF Gt(tymin, tmin) THEN tymin ELSE tmin,
               IF Lt(tymax, tmax) THEN tymax ELSE tmax,
               SwapLo(Quot(min.z - rorg.z, rdir.z, nz), Quot(max.z - rorg.z, rdir.z, nz)),
               SwapHi(Quot(min.z - rorg.z, rdir.z, nz), Quot(max.z - rorg.z, rdir.z, nz)))

\* ray_intersects_aabb from the y interval on
AabbY(rorg, rdir, nz, min, max, tmin, tmax) ==
    AabbXY(rorg, rdir, nz, min, max, tmin, tmax,
           SwapLo(Quot(min.y - rorg.y, rdir.y, nz), Quot(max.y - rorg.y, rdir.y, nz)),
           SwapHi(Quot(min.y - rorg.y, rdir.y, nz), Quot(max.y - rorg.y, rdir.y, nz)))

ray_intersects_aabb(rorg, rdir, nz, min, max) ==
    AabbY(rorg, rdir, nz, min, max,
          SwapLo(Quot(min.x - rorg.x, rdir.x, nz), Quot(max.x - rorg.x, rdir.x, nz)),
          SwapHi(Quot(min.x - rorg.x, rdir.x, nz), Quot(max.x - rorg.x, rdir.x, nz)))

triangle_to_aabb(t1, t2, t3) ==
    [min |-> Vec(Min(Min(t1.x, t2.x), t3.x), Min(Min(t1.y, t2.y), t3.y),
                 Min(Min(t1.z, t2.z), t3.z), Unit),
     max |-> Vec(Max(Max(t1.x, t2.x), t3.x), Max(Max(t1.y, t2.y), t3.y),
                 Max(Max(t1.z, t2.z), t3.z), Unit)]

aabb_aabb_overlap(min1, max1, min2, max2) ==
    /\ ~(min1.x > max2.x)
    /\ ~(max1.x < min2.x)
    /\ ~(min1.y > max2.y)
    /\ ~(max1.y < min2.y)
    /\ ~(min1.z > max2.z)
    /\ ~(max1.z < min2.z)

\* triangle_aabb_overlap once the box of the triangle is known
TriangleBoxOverlap(tb, min, max) == aabb_aabb_overlap(tb.min, tb.max, min, max)

triangle_aabb_overlap(t1, t2, t3, min, max) ==
    TriangleBoxOverlap(triangle_to_aabb(t1, t2, t3), min, max)

qmin(v1, v2, v3, v4) == Min(Min(Min(v1, v2), v3), v4)
qmax(v1, v2, v3, v4) == Max(Max(Max(v1, v2), v3), v4)

OctreeMaxDepth == 6

\* The node build_octree_rec(node, mesh, indexes, depth, max_depth) works on
OctreeNode(min, max, indexes, depth) ==
    [min |-> min, max |-> max, indexes |-> indexes, depth |-> depth]

RECURSIVE MeshBounds(_, _, _, _)
\* One turn of the loop of build_octree over the triangles
MeshBoundsTurn(triangles, i, min, max, vert1, vert2, vert3) ==
    MeshBounds(triangles, i + 1,
               Vec(qmin(min.x, vert1.x, vert2.x, vert3.x),
                   qmin(min.y, vert1.y, vert2.y, vert3.y),
                   qmin(min.z, vert1.z, vert2.z, vert3.z), Unit),
               Vec(qmax(max.x, vert1.x, vert2.x, vert3.x),
                   qmax(max.y, vert1.y, vert2.y, vert3.y),
                   qmax(max.z, vert1.z, vert2.z, vert3.z), Unit))

\* The loop of build_octree over the triangles, from triangle i on
MeshBounds(triangles, i, min, max) ==
    IF i > Len(triangles) THEN [min |-> min, max |-> max]
    ELSE Now(<<min, max>>,
             MeshBoundsTurn(triangles, i, min, max, triangles[i].v1.pos,
                            triangles[i].v2.pos, triangles[i].v3.pos))

\* build_octree once the box of the mesh is known
OctreeRoot(triangles, b) ==
    OctreeNode(b.min, b.max, [i \in 1..Len(triangles) |-> i], 1)

build_octree(triangles) ==
    OctreeRoot(triangles,
               MeshBounds(triangles, 1, Vec(F64Max, F64Max, F64Max, Unit),
                          Vec(-F64Max, -F64Max, -F64Max, Unit)))

RECURSIVE OverlapLoop(_, _, _, _)
\* The loop of build_octree_rec over indexes, from the k-th index on
OverlapLoop(triangles, node, k, tris) ==
    IF k > Len(node.indexes) THEN tris
    ELSE Now(tris,
             OverlapLoop(triangles, node, k + 1,
                 IF triangle_aabb_overlap(triangles[node.indexes[k]].v1.pos,
                                          triangles[node.indexes[k]].v2.pos,
                                          triangles[node.indexes[k]].v3.pos,
                                          node.min, node.max)
                 THEN Append(tris, node.indexes[k])
                 ELSE tris))

\* tris of build_octree_rec
NodeTris(triangles, node) ==
    IF node.depth > 1 THEN OverlapLoop(triangles, node, 1, <<>>)
    ELSE node.indexes

\* (half_x, half_y, half_z) of build_octree_rec
NodeHalf(node) ==
    VNew(FHalf(FDiff(node.max.x, node.min.x)),
         FHalf(FDiff(node.max.y, node.min.y)),
         FHalf(FDiff(node.max.z, node.min.z)))

\* x of build_octree_rec in turn _x of its loop: min.x, then x += half_x
ChildLo(lo, h, _x) == IF _x = 0 THEN lo ELSE FSum(lo, h)

\* nnode of build_octree_rec in turn (_x, _y, _z) of its loops
ChildNode(node, tris, h, _x, _y, _z) ==
    OctreeNode(VNew(ChildLo(node.min.x, h.x, _x), ChildLo(node.min.y, h.y, _y),
                    ChildLo(node.min.z, h.z, _z)),
               VNew(FSum(ChildLo(node.min.x, h.x, _x), h.x),
                    FSum(ChildLo(node.min.y, h.y, _y), h.y),
                    FSum(ChildLo(node.min.z, h.z, _z), h.z)),
               tris, node.depth + 1)

\* What build_octree_rec leaves in the node it is called with: its box, its
\* depth, its tris (of a leaf only) and the boxes of its children
\* (of an inner node only)
StoredNode(triangles, node, tris) ==
    Now(tris,
        IF node.depth >= OctreeMaxDepth
        THEN [kind |-> "node", min |-> node.min, max |-> node.max,
              depth |-> node.depth, tris |-> tris, children |-> <<>>]
        ELSE [kind |-> "node", min |-> node.min, max |-> node.max,
              depth |-> node.depth, tris |-> <<>>,
              children |->
                  [k \in 1..8 |->
                      LET c == ChildNode(node, tris, NodeHalf(node), (k - 1) \div 4,
                                         ((k - 1) \div 2) % 2, (k - 1) % 2)
                      IN  [min |-> c.min, max |-> c.max]]])

\* The node reached from node by the children path[k], path[k + 1], ...
\* (each 0..7, in the order build_octree_rec pushes them)
RECURSIVE NodeAt(_, _, _, _)
NodeAt(triangles, node, path, k) ==
    IF k > Len(path) THEN node
    ELSE NodeAt(triangles,
                ChildNode(node, NodeTris(triangles, node), NodeHalf(node),
                          path[k] \div 4, (path[k] \div 2) % 2, path[k] % 2),
                path, k + 1)

RECURSIVE intersection_candidates_rec(_, _, _, _, _, _)
RECURSIVE ChildLoop(_, _, _, _, _, _, _, _, _)
\* for child in &self.children, from the k-th child on
ChildLoop(triangles, node, tris, h, rorg, rdir, nz, k, candidates) ==
    IF k > 7 THEN candidates
    ELSE Now(candidates,
             ChildLoop(triangles, node, tris, h, rorg, rdir, nz, k + 1,
                 intersection_candidates_rec(triangles,
                     ChildNode(node, tris, h, k \div 4, (k \div 2) % 2, k % 2),
                     rorg, rdir, nz, candidates)))

\* intersection_candidates_rec in a node whose box the ray meets
NodeVisit(triangles, node, tris, rorg, rdir, nz, candidates) ==
    Now(tris,
        IF node.depth < OctreeMaxDepth
        THEN ChildLoop(triangles, node, tris, NodeHalf(node), rorg, rdir, nz, 0,
                       candidates)
        ELSE candidates \o tris)

intersection_candidates_rec(triangles, node, rorg, rdir, nz, candidates) ==
    IF ray_intersects_aabb(rorg, rdir, nz, node.min, node.max)
    THEN NodeVisit(triangles, node, NodeTris(triangles, node), rorg, rdir, nz,
                   candidates)
    ELSE candidates

intersection_candidates(triangles, octree, rorg, rdir, nz) ==
    intersection_candidates_rec(triangles, octree, rorg, rdir, nz, <<>>)

\* The search of Mesh::intersect: closest and lmin_t
MeshSearch(closest, lmin_t) == [closest |-> closest, lmin_t |-> lmin_t]

\* One turn of for t in candidates, once the triangle is tested
CandidateNearer(st, inter) ==
    IF st.closest.kind = "panic" THEN st
    ELSE IF inter.kind = "panic" THEN MeshSearch(inter, st.lmin_t)
    ELSE IF inter.kind = "some" /\ inter.ray_t < st.lmin_t
    THEN MeshSearch(inter, inter.ray_t)
    ELSE st

\* One turn of for t in candidates
CandidateTurn(tri, rorg, rdir, st) ==
    Now(st,
        CandidateNearer(st, intersect_ray_triangle(rorg, rdir, tri.v1, tri.v2,
                                                   tri.v3, st.lmin_t)))

RECURSIVE CandidateLoop(_, _, _, _, _, _, _)
\* The turns k..n of for t in candidates, run as the turns up to the
\* middle one followed by the turns after it
CandidateLoop(triangles, candidates, k, n, rorg, rdir, st) ==
    IF k > n THEN st
    ELSE IF k = n THEN CandidateTurn(triangles[candidates[k]], rorg, rdir, st)
    ELSE Now(st,
             CandidateLoop(triangles, candidates, (k + n) \div 2 + 1, n, rorg, rdir,
                 CandidateLoop(triangles, candidates, k, (k + n) \div 2, rorg,
                               rdir, st)))

\* Mesh::intersect once the candidates are known: the candidates and the
\* closest hit
MeshClosest(mesh, rorg, rdir, min_t, candidates) ==
    Now(candidates,
        [kind |-> "mesh", candidates |-> candidates,
         closest |-> CandidateLoop(mesh.triangles, candidates, 1, Len(candidates),
                                   rorg, rdir, MeshSearch(None, min_t)).closest])

MeshIntersect(mesh, rorg, rdir, nz, min_t) ==
    MeshClosest(mesh, rorg, rdir, min_t,
                intersection_candidates(mesh.triangles, mesh.octree, rorg,
                                        normalize(rdir), nz))

(***************************************************************************)
(* A single call of a routine of linear.rs or shade.rs, on arguments       *)
(* drawn from bounded sets.                                                 *)
(***************************************************************************)
\* Ray directions of length 1 and of other lengths.
RayDirs == {Vec(x, y, z, 0) : x \in {-300, 0, 300}, y \in {-300, 0, 300},
                              z \in {Unit, 2 * Unit}}

\* Spheres in front of the camera: [center, radius]
CallSpheres ==
    {[center |-> VNew(0, 0, 5000), radius |-> 2000],
     [center |-> VNew(1000, 0, 4000), radius |-> 1000]}

\* A triangle in the plane z = 6, its three corners at different
\* distances from the axis of the camera.
SkewTriangle ==
    [v1 |-> Vertex(-1000, -2000, 6000, Vec(0, 0, -Unit, 0)),
     v2 |-> Vertex(-1000, 4000, 6000, Vec(0, 0, -Unit, 0)),
     v3 |-> Vertex(5000, -2000, 6000, Vec(0, 0, -Unit, 0))]

\* FrontTriangle with a different normal at each corner
SmoothTriangle ==
    [v1 |-> Vertex(-3000, -3000, 4000, Vec(0, 0, -Unit, 0)),
     v2 |-> Vertex(0, 3000, 4000, Vec(0, 600, -800, 0)),
     v3 |-> Vertex(3000, -3000, 4000, Vec(600, 0, -800, 0))]

CallTriangles == {FrontTriangle, SkewTriangle, SmoothTriangle}

\* Ray origins at the camera, on the first sphere, inside it and inside
\* the second one
SphereOrigins == {cam_pos, VNew(0, 0, 3000), VNew(0, 1200, 3400), VNew(500, 0, 4500)}

\* min_t of a first test and of a test after a hit at 3.5
SphereMinTs == {MinTInit, 3500}

SphereInputs ==
    [fn : {"intersect_ray_sphere"}, o : SphereOrigins, d : RayDirs,
     sphere : CallSpheres, min_t : SphereMinTs]

TriangleInputs ==
    [fn : {"intersect_ray_triangle"}, o : {cam_pos}, d : RayDirs, tri : CallTriangles]

\* What intersect_ray_triangle has in n, dot and t before its guards
\* (linear.rs 431-437) for a triangle whose cross product is beyond
\* f64::MAX, such as FrontTriangle with x and y 1e160 times as large:
\* n = (0, 0, -inf), and dot = n . rdir and t = n . p0 - n . rorg are each
\* -inf, +inf or NaN with the signs of the z components.
GuardInputs ==
    [fn : {"intersect_ray_triangle guards"}, o : {Vec(0, 0, -Unit, Unit)},
     d : {Vec(0, 0, Unit, 0)}, tri : {FrontTriangle}, min_t : {MinTInit, 3500},
     n : {Vec(0, 0, -Inf, Unit)}, dot : {-Inf, Inf, NaN}, t : {-Inf, Inf, NaN}]

\* What read_meshes makes of the triangles and the material of a mesh
LoadMesh(triangles, material) ==
    [triangles |-> triangles, material |-> material,
     octree |-> build_octree(triangles)]

MeshNormal == Vec(0, 0, -Unit, 0)

\* Three triangles in the plane z = 4: one across the middle of the box of
\* the mesh, two in corners of it.
FlatMesh ==
    LoadMesh(<< [v1 |-> Vertex(-3200, -3200, 4000, MeshNormal),
                 v2 |-> Vertex(0, 3200, 4000, MeshNormal),
                 v3 |-> Vertex(3200, -3200, 4000, MeshNormal)],
                [v1 |-> Vertex(1600, 1600, 4000, MeshNormal),
                 v2 |-> Vertex(3200, 3200, 4000, MeshNormal),
                 v3 |-> Vertex(3200, 1600, 4000, MeshNormal)],
                [v1 |-> Vertex(-3200, 1600, 4000, MeshNormal),
                 v2 |-> Vertex(-3200, 3200, 4000, MeshNormal),
                 v3 |-> Vertex(-1600, 3200, 4000, MeshNormal)] >>, "red")

\* A triangle that leans away from the camera and two small ones beside
\* and behind it.
DeepMesh ==
    LoadMesh(<< [v1 |-> Vertex(-3200, -3200, 4000, MeshNormal),
                 v2 |-> Vertex(0, 3200, 10400, MeshNormal),
                 v3 |-> Vertex(3200, -3200, 4000, MeshNormal)],
                [v1 |-> Vertex(-3200, 0, 7200, MeshNormal),
                 v2 |-> Vertex(-3200, 1600, 8800, MeshNormal),
                 v3 |-> Vertex(-1600, 0, 7200, MeshNormal)],
                [v1 |-> Vertex(1600, 1600, 8800, MeshNormal),
                 v2 |-> Vertex(1600, 3200, 10400, MeshNormal),
                 v3 |-> Vertex(3200, 1600, 10400, MeshNormal)] >>, "red")

CallMeshes == {FlatMesh, DeepMesh}

\* Ray origins in front of, below and beside the meshes
MeshOrigins == {cam_pos, Vec(2400, 1800, 0, Unit), Vec(-6400, 400, 7200, Unit)}

\* Ray directions along an axis and oblique ones, of length 1 and 2
MeshDirs ==
    {Vec(0, 0, Unit, 0), Vec(0, 0, 2 * Unit, 0), Vec(Unit, 0, 0, 0),
     Vec(600, 0, 800, 0), Vec(0, 600, 800, 0), Vec(-600, 0, 800, 0),
     Vec(0, -1200, 1600, 0), Vec(800, 0, 600, 0)}

MeshInputs ==
    [fn : {"Mesh::intersect"}, o : MeshOrigins, d : MeshDirs, nz : BOOLEAN,
     mesh : CallMeshes]

\* Directions of length 1 to a light and to a viewer, and surface normals
ShadeDirs ==
    {Vec(0, 0, Unit, 0), Vec(0, 0, -Unit, 0), Vec(0, Unit, 0, 0), Vec(Unit, 0, 0, 0),
     Vec(600, 0, 800, 0), Vec(-600, 0, -800, 0), Vec(0, 600, -800, 0)}

ShadeNormals == {Vec(0, 0, Unit, 0), Vec(0, 600, 800, 0), Vec(-800, 0, 600, 0)}

\* The same directions and normals, and some of them twice and half as long
LambertDirs ==
    ShadeDirs \cup {Vec(0, 0, 2 * Unit, 0), Vec(1200, 0, 1600, 0), Vec(0, 0, 500, 0),
                    Vec(300, 0, 400, 0)}

LambertNormals == ShadeNormals \cup {Vec(0, 0, 2 * Unit, 0), Vec(0, 1200, 1600, 0)}

LambertInputs == [fn : {"shade_lambert"}, l : LambertDirs, n : LambertNormals]

OrenNayarInputs ==
    [fn : {"shade_oren_nayar"}, l : ShadeDirs, n : ShadeNormals, v : ShadeDirs,
     rough : {300, Unit}, alb : {Unit}]

\* The sphere a shaded point lies on, alone; with a small sphere on the way
\* to one side of the light; and with a small triangle on the way to the
\* other side of it.
LitSphere == [center |-> VNew(0, 0, 5000), radius |-> 2000, material |-> "red"]

SceneOpen == MakeScene(<<MatRed>>, <<LitSphere>>, <<>>, <<SphereLight>>)

SceneShadowSphere ==
    MakeScene(<<MatRed>>,
              <<LitSphere,
                [center |-> VNew(500, 1500, 2000), radius |-> 300, material |-> "red"]>>,
              <<>>, <<SphereLight>>)

SceneShadowTriangle ==
    MakeScene(<<MatRed>>, <<LitSphere>>,
              <<[triangles |->
                    <<[v1 |-> Vertex(-800, 1200, 2000, MeshNormal),
                       v2 |-> Vertex(-200, 1200, 2000, MeshNormal),
                       v3 |-> Vertex(-500, 1900, 2000, MeshNormal)]>>,
                 material |-> "red"]>>,
              <<SphereLight>>)

VisibilityScenes == {SceneOpen, SceneShadowSphere, SceneShadowTriangle}

\* Sphere lights of two and of three samples
VisibilityLights == {SphereLight, [SphereLight EXCEPT !.samples = 3]}

\* Hits on the front and on the top of LitSphere
VisibilityHits ==
    {Some(VNew(0, 0, 3000), Vec(0, 0, -Unit, 0), VNew(0, 0, 0), 3000),
     Some(VNew(0, 2000, 5000), Vec(0, Unit, 0, 0), VNew(0, 0, 0), 5385)}

\* What the generator hands out: two pairs of numbers, for two samples
\* towards different sides of the light or towards the same one
VisibilityStreams ==
    {<<0, 500, 500, 500>>, <<500, 500, 0, 500>>, <<0, 500, 0, 500>>,
     <<500, 500, 500, 500>>, <<250, 500, 0, 0>>, <<0, 250, 500, 750>>}

VisibilityInputs ==
    [fn : {"light_visibility"}, scene : VisibilityScenes, inter : VisibilityHits,
     closest_sp_index : {0}, light : VisibilityLights, rs : VisibilityStreams]

\* A mesh whose box has sides in x and in y that the f64 of the model do
\* not halve five times without rounding: a triangle across the box and
\* one that begins at x = 4.372.
EdgeMesh ==
    << [v1 |-> Vertex(-2560, -6400, 0, MeshNormal),
        v2 |-> Vertex(4832, -5344, 3200, MeshNormal),
        v3 |-> Vertex(-2560, -5344, 0, MeshNormal)],
       [v1 |-> Vertex(4372, -6400, 0, MeshNormal),
        v2 |-> Vertex(4600, -5344, 3200, MeshNormal),
        v3 |-> Vertex(4372, -5344, 0, MeshNormal)] >>

\* The triangle lists read_meshes builds an octree of: the two meshes of
\* the intersection calls, EdgeMesh, and a mesh of no triangle
BuildMeshes == {FlatMesh.triangles, DeepMesh.triangles, EdgeMesh, <<>>}

\* The nodes of a tree, each by the children that lead to it from the
\* root: the root by the empty path, a leaf by a path of five children
Paths == UNION {[1..n -> 0..7] : n \in 0..(OctreeMaxDepth - 1)}

BuildInputs == [fn : {"build_octree"}, triangles : BuildMeshes, path : Paths]

\* Boxes in front of the camera, behind it and beside it: [min, max]
AabbBoxes ==
    {[min |-> VNew(-1000, -1000, 2000), max |-> VNew(1000, 1000, 4000)],
     [min |-> VNew(-1000, -1000, -4000), max |-> VNew(1000, 1000, -2000)],
     [min |-> VNew(3000, -1000, 0), max |-> VNew(5000, 1000, 2000)]}

AabbInputs ==
    [fn : {"ray_intersects_aabb"}, o : {cam_pos, Vec(2400, 1800, 0, Unit)},
     d : MeshDirs, nz : BOOLEAN, box : AabbBoxes]

\* The lit colour before the indirect term, the radiance the recursive
\* call returned (its three channels different) and the shading of the
\* path direction
PathColors == {Color(r, g, b) : r \in {0, 400}, g \in {0, 700}, b \in {0, 900}}

PathInputs ==
    [fn : {"path_color"}, lcolor : {black, Color(100, 200, 300)},
     path_color : PathColors, shading : {0, 500, 1500}]

RoutineInputs ==
    SphereInputs \cup TriangleInputs \cup MeshInputs \cup LambertInputs
       \cup OrenNayarInputs \cup VisibilityInputs \cup PathInputs \cup AabbInputs
       \cup GuardInputs

RoutineInit ==
    /\ scene = SceneEmpty
    /\ rendered = <<>>
    /\ RenderInit
    /\ t_in \in RoutineInputs
    /\ t_out = NoCall

\* linear::intersect_ray_sphere(&o, &d, &sphere.center, sphere.radius, min_t)
SphereCall ==
    /\ t_out = NoCall
    /\ t_in.fn = "intersect_ray_sphere"
    /\ t_out' = intersect_ray_sphere(t_in.o, t_in.d, t_in.sphere.center,
                                     t_in.sphere.radius, t_in.min_t)
    /\ UNCHANGED <<Given, pc, sample, iy, py, num_threads, lines, chan, worker,
                   Output, Ghosts, t_in>>

\* linear::intersect_ray_triangle(&o, &d, &tri.v1, &tri.v2, &tri.v3, min_t)
TriangleCall ==
    /\ t_out = NoCall
    /\ t_in.fn = "intersect_ray_triangle"
    /\ t_out' = intersect_ray_triangle(t_in.o, t_in.d, t_in.tri.v1, t_in.tri.v2,
                                       t_in.tri.v3, MinTInit)
    /\ UNCHANGED <<Given, pc, sample, iy, py, num_threads, lines, chan, worker,
                   Output, Ghosts, t_in>>

\* mesh.intersect(&o, &d, min_t)
MeshCall ==
    /\ t_out = NoCall
    /\ t_in.fn = "Mesh::intersect"
    /\ t_out' = MeshIntersect(t_in.mesh, t_in.o, t_in.d, t_in.nz, MinTInit)
    /\ UNCHANGED <<Given, pc, sample, iy, py, num_threads, lines, chan, worker,
                   Output, Ghosts, t_in>>

\* The f64 a shading routine returns
Shade(val) == [kind |-> "f64", val |-> val]

\* shade::shade_lambert(&l, &n)
LambertCall ==
    /\ t_out = NoCall
    /\ t_in.fn = "shade_lambert"
    /\ t_out' = Shade(shade_lambert(t_in.l, t_in.n))
    /\ UNCHANGED <<Given, pc, sample, iy, py, num_threads, lines, chan, worker,
                   Output, Ghosts, t_in>>

\* shade::shade_oren_nayar(&l, &n, &v, rough, alb)
OrenNayarCall ==
    /\ t_out = NoCall
    /\ t_in.fn = "shade_oren_nayar"
    /\ t_out' = Shade(shade_oren_nayar(t_in.l, t_in.n, t_in.v, t_in.rough, t_in.alb))
    /\ UNCHANGED <<Given, pc, sample, iy, py, num_threads, lines, chan, worker,
                   Output, Ghosts, t_in>>

\* The visibility of a light as trace computes it for a hit, before the
\* attenuation: [kind, v, k]
Visibility(vis) == [kind |-> "visibility", v |-> vis.v, k |-> vis.k]

\* The turn of the light loop of trace for one light, up to light_intens
VisibilityCall ==
    /\ t_out = NoCall
    /\ t_in.fn = "light_visibility"
    /\ t_out' = Visibility(LightVisibility(t_in.scene, t_in.inter,
                                           t_in.closest_sp_index, t_in.light,
                                           t_in.rs, 0))
    /\ UNCHANGED <<Given, pc, sample, iy, py, num_threads, lines, chan, worker,
                   Output, Ghosts, t_in>>

\* The lit colour of trace after the indirect term
Lit(lcolor) == [kind |-> "color", lcolor |-> lcolor]

\* lcolor.r += ...; lcolor.g += ...; lcolor.b += ... of trace (main.rs 394-396)
PathCall ==
    /\ t_out = NoCall
    /\ t_in.fn = "path_color"
    /\ t_out' = Lit(AddPath(t_in.lcolor, t_in.path_color, t_in.shading))
    /\ UNCHANGED <<Given, pc, sample, iy, py, num_threads, lines, chan, worker,
                   Output, Ghosts, t_in>>

\* The bool a box test returns
Flag(val) == [kind |-> "bool", val |-> val]

\* linear::ray_intersects_aabb(&o, &d, &box.min, &box.max)
AabbCall ==
    /\ t_out = NoCall
    /\ t_in.fn = "ray_intersects_aabb"
    /\ t_out' = Flag(ray_intersects_aabb(t_in.o, t_in.d, t_in.nz, t_in.box.min,
                                         t_in.box.max))
    /\ UNCHANGED <<Given, pc, sample, iy, py, num_threads, lines, chan, worker,
                   Output, Ghosts, t_in>>

\* intersect_ray_triangle from its guards on (linear.rs 431-454)
GuardsCall ==
    /\ t_out = NoCall
    /\ t_in.fn = "intersect_ray_triangle guards"
    /\ t_out' = TriPlane(t_in.o, t_in.d, t_in.tri.v1, t_in.tri.v2, t_in.tri.v3,
                         t_in.min_t, t_in.n, t_in.dot, t_in.t)
    /\ UNCHANGED <<Given, pc, sample, iy, py, num_threads, lines, chan, worker,
                   Output, Ghosts, t_in>>

RoutineNext ==
    \/ SphereCall
    \/ TriangleCall
    \/ MeshCall
    \/ LambertCall
    \/ OrenNayarCall
    \/ VisibilityCall
    \/ PathCall
    \/ AabbCall
    \/ GuardsCall

RoutineSpec == RoutineInit /\ [][RoutineNext]_vars

(***************************************************************************)
(* The octree of a mesh as build_octree leaves it, one node of it a call   *)
(***************************************************************************)
BuildInit ==
    /\ scene = SceneEmpty
    /\ rendered = <<>>
    /\ RenderInit
    /\ t_in \in BuildInputs
    /\ t_out = NoCall

\* octree::build_octree(&triangles), and the node of the tree at t_in.path
BuildCall ==
    /\ t_out = NoCall
    /\ t_out' = LET node == NodeAt(t_in.triangles, build_octree(t_in.triangles),
                                   t_in.path, 1)
                IN  StoredNode(t_in.triangles, node, NodeTris(t_in.triangles, node))
    /\ UNCHANGED <<Given, pc, sample, iy, py, num_threads, lines, chan, worker,
                   Output, Ghosts, t_in>>

BuildNext == BuildCall

BuildSpec == BuildInit /\ [][BuildNext]_vars

(***************************************************************************)
(* The nearest-hit search of trace (main.rs 229-296), one object a step.   *)
(* t_out holds the position of the search: the loop it is in, the indices  *)
(* i and j of the object to test next, and closest, closest_sp_index,      *)
(* closest_mesh_index and min_t as st.                                     *)
(***************************************************************************)
\* Two equal spheres of different materials.
SceneTwins ==
    MakeScene(<<MatRed>>,
              <<[center |-> VNew(0, 0, 5000), radius |-> 2000, material |-> "first"],
                [center |-> VNew(0, 0, 5000), radius |-> 2000, material |-> "second"]>>,
              <<>>, <<PointLight>>)

\* A sphere and a triangle that the ray along the z axis meets at the same
\* ray_t, 4.
SceneTie ==
    MakeScene(<<MatRed>>,
              <<[center |-> VNew(0, 0, 5000), radius |-> Unit, material |-> "sphere"]>>,
              <<[triangles |-> <<FrontTriangle>>, material |-> "mesh"]>>,
              <<PointLight>>)

\* A far sphere before a near one, and a far mesh before a near one that
\* holds the same triangle twice.
SceneRows ==
    MakeScene(<<MatRed>>,
              <<[center |-> VNew(0, 0, 9000), radius |-> 2000, material |-> "far"],
                [center |-> VNew(500, 0, 7000), radius |-> Unit, material |-> "near"]>>,
              <<[triangles |-> <<SkewTriangle>>, material |-> "back"],
                [triangles |-> <<FrontTriangle, FrontTriangle>>, material |-> "front"]>>,
              <<PointLight>>)

\* A volume of 4 x 4 x 4 voxels, all of them set, before the camera
VoxelBox ==
    [translation |-> Vec(-2000, -2000, 3000, Unit), rotation |-> Vec(0, 0, 0, Unit),
     scale |-> VNew(Unit, Unit, Unit), material |-> "red",
     voxels |-> [width |-> 4, height |-> 4, depth |-> 4,
                 data |-> [i \in 1..64 |-> Color(1000, 1000, 1000)]]]

\* SceneSphere with the volume before its sphere.
SceneVoxels == [SceneSphere EXCEPT !.voxels = <<VoxelBox>>]

SearchScenes == {SceneTwins, SceneTie, SceneRows, SceneMesh, SceneVoxels}

SearchInputs ==
    [fn : {"nearest_hit"}, scene : SearchScenes, ray_org : {cam_pos},
     ray_dir : TraceDirs]

SearchCallInit ==
    /\ scene = SceneEmpty
    /\ rendered = <<>>
    /\ RenderInit
    /\ t_in \in SearchInputs
    /\ t_out = NoCall

\* tested records the objects the loops have been through
Search(loop, i, j, st, mat_name, tested) ==
    [kind |-> "search", loop |-> loop, i |-> i, j |-> j, st |-> st,
     mat_name |-> mat_name, tested |-> tested]

SearchFrame ==
    <<Given, pc, sample, iy, py, num_threads, lines, chan, worker, Output, Ghosts, t_in>>

\* let mut closest, closest_sp_index, closest_mesh_index, min_t
SearchBegin ==
    /\ t_out = NoCall
    /\ t_out' = Search("spheres", 0, 0, SearchInit, "", <<>>)
    /\ UNCHANGED SearchFrame

\* One turn of for i in 0..spheres.len()
SearchSphere ==
    /\ t_out.kind = "search"
    /\ t_out.loop = "spheres"
    /\ t_out.i < Len(t_in.scene.spheres)
    /\ t_out' = Search("spheres", t_out.i + 1, 0,
                       SphereNearer(t_out.st, t_out.i,
                           intersect_ray_sphere(t_in.ray_org, t_in.ray_dir,
                               t_in.scene.spheres[t_out.i + 1].center,
                               t_in.scene.spheres[t_out.i + 1].radius,
                               t_out.st.min_t)),
                       "", Append(t_out.tested, <<"sphere", t_out.i>>))
    /\ UNCHANGED SearchFrame

\* The end of the loop over the spheres
SearchSpheresEnd ==
    /\ t_out.kind = "search"
    /\ t_out.loop = "spheres"
    /\ t_out.i >= Len(t_in.scene.spheres)
    /\ t_out' = Search("meshes", 0, 0, t_out.st, "", t_out.tested)
    /\ UNCHANGED SearchFrame

\* One turn of for tri in &mesh.triangles
SearchTriangle ==
    /\ t_out.kind = "search"
    /\ t_out.loop = "meshes"
    /\ ~t_out.st.panic
    /\ t_out.i < Len(t_in.scene.meshes)
    /\ t_out.j < Len(t_in.scene.meshes[t_out.i + 1].triangles)
    /\ t_out' = Search("meshes", t_out.i, t_out.j + 1,
                       TriNearer(t_out.st, t_out.i,
                           intersect_ray_triangle(t_in.ray_org, t_in.ray_dir,
                               t_in.scene.meshes[t_out.i + 1].triangles[t_out.j + 1].v1,
                               t_in.scene.meshes[t_out.i + 1].triangles[t_out.j + 1].v2,
                               t_in.scene.meshes[t_out.i + 1].triangles[t_out.j + 1].v3,
                               t_out.st.min_t)),
                       "", t_out.tested)
    /\ UNCHANGED SearchFrame

\* The end of the loop over the triangles of a mesh
SearchMeshEnd ==
    /\ t_out.kind = "search"
    /\ t_out.loop = "meshes"
    /\ ~t_out.st.panic
    /\ t_out.i < Len(t_in.scene.meshes)
    /\ t_out.j >= Len(t_in.scene.meshes[t_out.i + 1].triangles)
    /\ t_out' = Search("meshes", t_out.i + 1, 0, t_out.st, "",
                       Append(t_out.tested, <<"mesh", t_out.i>>))
    /\ UNCHANGED SearchFrame

\* The end of the loop over the meshes, and mat_name
SearchEnd ==
    /\ t_out.kind = "search"
    /\ t_out.loop = "meshes"
    /\ t_out.st.panic \/ t_out.i >= Len(t_in.scene.meshes)
    /\ t_out' = Search("done", t_out.i, 0, t_out.st,
                       IF t_out.st.closest.kind = "some"
                       THEN MatName(t_in.scene, t_out.st) ELSE "",
                       t_out.tested)
    /\ UNCHANGED SearchFrame

SearchNext ==
    \/ SearchBegin
    \/ SearchSphere
    \/ SearchSpheresEnd
    \/ SearchTriangle
    \/ SearchMeshEnd
    \/ SearchEnd

SearchSpec == SearchCallInit /\ [][SearchNext]_vars

(***************************************************************************)
(* Properties of the render                                                *)
(***************************************************************************)
Uncollected ==
    Cardinality({w \in Workers :
                    w[1] = sample /\ worker[w].state \in {"running", "computed", "panicked"}})
    + Len(chan)

\* How often pass p is in the passes added into row r.
TimesAdded(p, r) == Cardinality({i \in 1..Len(added[r]) : added[r][i] = p})

\* C1: lines[r] is written only by a step of the main thread that receives
\* the message of row r, never by a step of a worker; when it is written
\* the worker of (the current pass, r) has computed its whole row and has
\* sent it, and what is added is that row.
C1_SingleWriter ==
    [][\A r \in Rows :
          lines'[r + 1] # lines[r + 1] =>
             /\ pc \in {"poll", "drain"}
             /\ worker' = worker
             /\ chan # <<>>
             /\ Head(chan).line = r
             /\ worker[<<sample, r>>].state = "sent"
             /\ worker[<<sample, r>>].out.status = "ok"
             /\ Len(worker[<<sample, r>>].out.colors) = ImgW
             /\ Head(chan).colors = worker[<<sample, r>>].out.colors
             /\ \A x \in 1..ImgW :
                   /\ lines'[r + 1][x].r = lines[r + 1][x].r + Head(chan).colors[x].r
                   /\ lines'[r + 1][x].g = lines[r + 1][x].g + Head(chan).colors[x].g
                   /\ lines'[r + 1][x].b = lines[r + 1][x].b + Head(chan).colors[x].b
             /\ \A o \in Rows : o # r => lines'[o + 1] = lines[o + 1]]_vars

\* A row with colour in it has been added while other workers still run.
C1_Witness ==
    \E r \in Rows :
       /\ added[r] # <<>>
       /\ lines[r + 1] # [x \in 1..ImgW |-> black]
       /\ \E w \in Workers : worker[w].state = "running"

\* C2: no (pass, row) has two workers and no row has a pass added twice;
\* when a pass has ended num_threads is 0, and every row of every ended
\* pass has had exactly one worker, which has sent, and its result is in
\* lines exactly once.
C2_ExactlyOnce ==
    /\ \A w \in Workers : spawns[w] <= 1
    /\ \A p \in Passes, r \in Rows : TimesAdded(p, r) <= 1
    /\ pc = "pass" =>
          /\ num_threads = 0
          /\ chan = <<>>
          /\ \A p \in Passes, r \in Rows :
                p < sample =>
                   /\ spawns[<<p, r>>] = 1
                   /\ worker[<<p, r>>].state = "sent"
                   /\ TimesAdded(p, r) = 1

\* The last pass has ended, and in it a result was collected by each drain.
C2_Witness ==
    /\ pc = "pass"
    /\ sample = Samples
    /\ \A r \in Rows : Len(added[r]) = Samples

\* C3: num_threads is the number of workers spawned and not yet collected
\* and never exceeds numcpus; a worker is spawned only when
\* num_threads < numcpus and a row is left to dispatch.
C3_BoundedWorkers ==
    /\ [](num_threads <= NumCpus /\ num_threads = Uncollected)
    /\ [][spawns' # spawns =>
             /\ num_threads < NumCpus
             /\ iy < ImgH
             /\ num_threads' = num_threads + 1
             /\ spawns' = [spawns EXCEPT ![<<sample, iy>>] = @ + 1]]_vars

\* The limit is reached while rows are left to dispatch.
C3_Witness == num_threads = NumCpus /\ iy < ImgH /\ pc = "dispatch"

\* C4: when no thread panics and the main thread and the workers are
\* scheduled fairly, the render ends: all passes are made, the image is
\* converted and write_tga is reached.
C4_Terminates == <>(pc = "done" /\ sample = Samples /\ Len(pixels) = ImgH * ImgW * 3)

\* In the last pass the main thread is blocked in rx.recv() on an empty
\* channel while workers are still at work.
C4_Witness ==
    /\ pc = "drain"
    /\ sample = Samples - 1
    /\ num_threads > 0
    /\ chan = <<>>

\* C5: the main thread is never left in the blocking drain waiting for a
\* result that no thread will send, a worker having panicked.
C5_NeverBlockedByPanic ==
    ~ /\ pc = "drain"
      /\ num_threads > 0
      /\ chan = <<>>
      /\ \E w \in Workers : worker[w].state = "panicked"
      /\ \A w \in Workers : worker[w].state \notin {"running", "computed"}

\* The sum over the passes 0 .. n - 1 of channel ch of pixel x of the row
\* the worker of (pass, r) computed.
RECURSIVE PassSum(_, _, _, _)
PassSum(r, x, ch, n) ==
    IF n = 0 THEN 0
    ELSE PassSum(r, x, ch, n - 1) + worker[<<n - 1, r>>].out.colors[x][ch]

\* C6: whatever the order in which the workers finish and their results
\* are received, the passes are added into each row in pass order and
\* lines[r] is the sum of the rows the workers of r computed; at the end
\* every row holds all the passes.
C6_OrderIndependent ==
    /\ \A r \in Rows :
          /\ added[r] = [i \in 1..Len(added[r]) |-> i - 1]
          /\ \A x \in 1..ImgW : \A ch \in {"r", "g", "b"} :
                lines[r + 1][x][ch] = PassSum(r, x, ch, Len(added[r]))
    /\ pc \in {"write", "done"} => \A r \in Rows : Len(added[r]) = Samples

\* A later row has been added in the second pass before an earlier one.
C6_Witness ==
    \E r1 \in Rows, r2 \in Rows :
       /\ r1 < r2
       /\ Len(added[r2]) = 2
       /\ Len(added[r1]) = 1
       /\ lines[r2 + 1] # [x \in 1..ImgW |-> black]

\* C7: the numbers a worker draws are fixed by the seed given to
\* Random::new, so two workers given the same seed draw the same numbers.
C7_SeedFixesDraws ==
    \A w1 \in Workers, w2 \in Workers :
       (/\ worker[w1].out # NoRow
        /\ worker[w2].out # NoRow
        /\ Seed(w1) = Seed(w2)) => worker[w1].rs = worker[w2].rs

\* The index in conv_in of channel j (0 = b, 1 = g, 2 = r) of pixel x of row r.
ConvIndex(r, x, j) == (r * ImgW + (x - 1)) * 3 + j + 1

\* C8: a channel of a pixel that got the same value c in every pass is
\* handed to convert as c.
C8_DividedBySamples ==
    pc \in {"write", "done"} =>
       \A r \in Rows, x \in 1..ImgW, j \in 0..2 :
          LET ch == IF j = 0 THEN "b" ELSE IF j = 1 THEN "g" ELSE "r"
              c == worker[<<0, r>>].out.colors[x][ch]
          IN  (\A p \in Passes : worker[<<p, r>>].out.colors[x][ch] = c)
                 => conv_in[ConvIndex(r, x, j)] = c

\* No sphere and no triangle of the scene is hit by the ray, however far.
NoObjectHit(scn, org, dir) ==
    /\ \A i \in 1..Len(scn.spheres) :
          intersect_ray_sphere(org, dir, scn.spheres[i].center,
                               scn.spheres[i].radius, MinTInit).kind = "none"
    /\ \A m \in 1..Len(scn.meshes) : \A t \in 1..Len(scn.meshes[m].triangles) :
          LET tr == scn.meshes[m].triangles[t]
          IN  intersect_ray_triangle(org, dir, tr.v1, tr.v2, tr.v3, MinTInit).kind = "none"

\* C9: a call of trace with depth <= max_depth whose ray hits no sphere
\* and no triangle returns the sky colour of the scene, r, g and b
\* unchanged; so does every such call it makes in turn, and so does every
\* call at depth 0 in a scene without objects.
C9_SkyOnNoHit ==
    t_out # NoCall =>
       /\ (t_in.depth <= scene.max_depth
             /\ NoObjectHit(scene, t_in.ray_org, t_in.ray_dir))
          => (t_out.status = "ok" /\ t_out.color = scene.skycolor)
       /\ \A i \in 1..Len(t_out.log) :
             (t_out.log[i].depth <= scene.max_depth
                /\ NoObjectHit(scene, t_out.log[i].ray_org, t_out.log[i].ray_dir))
             => t_out.log[i].color = scene.skycolor
       /\ (scene.spheres = <<>> /\ scene.meshes = <<>> /\ t_in.depth = 0)
          => t_out.color = scene.skycolor

\* A ray that misses every object of a scene that has objects.
C9_Witness ==
    /\ t_out # NoCall
    /\ scene.spheres # <<>>
    /\ t_in.depth <= scene.max_depth
    /\ NoObjectHit(scene, t_in.ray_org, t_in.ray_dir)
    /\ t_out.color = Color(200, 300, 400)

\* C10: a pixel whose nearest hit names a material the scene lacks is
\* black; its trace returns without a panic, evaluates no light and makes
\* no recursive call (it draws no number); the worker goes on to the
\* remaining pixels, computes the whole row and is not stopped.
C10_MissingMaterialIsBlack ==
    \A w \in Workers :
       worker[w].out # NoRow =>
          LET out == worker[w].out
          IN  /\ \A x \in 1..Len(out.calls) :
                    out.calls[x].kind = "nomat" =>
                       /\ out.status = "ok"
                       /\ worker[w].state \in {"computed", "sent"}
                       /\ Len(out.colors) = ImgW
                       /\ Len(out.calls) = ImgW
                       /\ out.colors[x] = black
                       /\ out.calls[x].lights = 0
                       /\ out.calls[x].bounces = 0
              /\ (\A x \in 1..Len(out.calls) : out.calls[x].kind \in {"nomat", "sky"})
                 => out.k = 2 * Len(out.calls)

\* The render is done, and in it a row had a pixel without material
\* followed by a pixel of the sky.
C10_Witness ==
    /\ pc = "done"
    /\ \E w \in Workers :
          /\ worker[w].state = "sent"
          /\ worker[w].out.calls[1].kind = "nomat"
          /\ worker[w].out.calls[ImgW].kind = "sky"
(***************************************************************************)
(* Properties of loading, the intersection routines and the integrator     *)
(***************************************************************************)
\* Some sphere or mesh of the scene names a material id that no entry of
\* materials has.
DanglingMaterial(scn) ==
    \/ \E i \in 1..Len(scn.spheres) :
          FindMaterial(scn.materials, scn.spheres[i].material) = 0
    \/ \E i \in 1..Len(scn.meshes) :
          FindMaterial(scn.materials, scn.meshes[i].material) = 0

\* C11: a scene in which a primitive names a material id that is not in
\* materials is rejected when it is loaded: no render of it ends with an
\* image handed to write_tga.
C11_DanglingMaterialRejected ==
    DanglingMaterial(scene) => ~(pc = "done" /\ Len(pixels) = ImgH * ImgW * 3)

\* The tolerance of a comparison of computed positions: 0.02
Tol == Unit \div 50

\* p and q agree in x, y and z within Tol
Near(p, q) ==
    /\ Abs(p.x - q.x) <= Tol
    /\ Abs(p.y - q.y) <= Tol
    /\ Abs(p.z - q.z) <= Tol

\* C12: every hit an intersection routine returns for the origin o and the
\* direction d, of whatever length, has pos = o + d * ray_t.
C12_HitOnRay ==
    (/\ t_out # NoCall
     /\ t_in.fn \in {"intersect_ray_sphere", "intersect_ray_triangle"}
     /\ t_out.kind = "some")
       => Near(t_out.pos, PointAt(t_in.o, t_in.d, t_out.ray_t))

\* What C12 says of intersect_ray_triangle alone.
C12_TriangleHitOnRay ==
    (t_out # NoCall /\ t_in.fn = "intersect_ray_triangle" /\ t_out.kind = "some")
       => t_out.pos = PointAt(t_in.o, t_in.d, t_out.ray_t)

\* C13: the barycentric weights of a triangle hit are each >= 0, sum to 1,
\* and x * v1.pos + y * v2.pos + z * v3.pos is the position of the hit.
C13_BarycentricPosition ==
    (t_out # NoCall /\ t_in.fn = "intersect_ray_triangle" /\ t_out.kind = "some")
       => LET b == t_out.barycentric
              v1 == t_in.tri.v1.pos
              v2 == t_in.tri.v2.pos
              v3 == t_in.tri.v3.pos
          IN  /\ b.x >= 0 /\ b.y >= 0 /\ b.z >= 0
              /\ b.x + b.y + b.z = Unit
              /\ Near(t_out.pos,
                      Vec(FMul(b.x, v1.x) + FMul(b.y, v2.x) + FMul(b.z, v3.x),
                          FMul(b.x, v1.y) + FMul(b.y, v2.y) + FMul(b.z, v3.y),
                          FMul(b.x, v1.z) + FMul(b.y, v2.z) + FMul(b.z, v3.z),
                          Unit))

\* The triangles of the mesh of the call that intersect_ray_triangle, tried
\* on every one of them, reports as hit
BruteForceHits ==
    {i \in 1..Len(t_in.mesh.triangles) :
        intersect_ray_triangle(t_in.o, t_in.d, t_in.mesh.triangles[i].v1,
                               t_in.mesh.triangles[i].v2,
                               t_in.mesh.triangles[i].v3, MinTInit).kind = "some"}

Candidates == {t_out.candidates[k] : k \in 1..Len(t_out.candidates)}

\* C14: every triangle of the mesh that a test of all its triangles reports
\* as hit by the ray is among the candidates the octree returns for the ray.
C14_NoFalseNegatives ==
    (t_out # NoCall /\ t_in.fn = "Mesh::intersect") => BruteForceHits \subseteq Candidates

\* C15: shade_lambert returns 0 when n . l <= 0, shade_oren_nayar returns 0
\* when n . l <= 0 or n . v <= 0, and neither ever returns a negative value.
C15_DarkBehindSurface ==
    /\ (t_out # NoCall /\ t_in.fn = "shade_lambert")
          => /\ t_out.val >= 0
             /\ dot(t_in.n, t_in.l) <= 0 => t_out.val = 0
    /\ (t_out # NoCall /\ t_in.fn = "shade_oren_nayar")
          => /\ t_out.val >= 0
             /\ (dot(t_in.n, t_in.l) <= 0 \/ dot(t_in.n, t_in.v) <= 0)
                   => t_out.val = 0

\* shade_lambert has been called with a light behind the surface (n . l < 0)
C15_Witness ==
    /\ t_out # NoCall
    /\ t_in.fn = "shade_lambert"
    /\ dot(t_in.n, t_in.l) < 0
    /\ t_out.val = 0

\* shade_oren_nayar has been called with the light in front of the surface
\* and the viewer behind it
C15_WitnessOrenNayar ==
    /\ t_out # NoCall
    /\ t_in.fn = "shade_oren_nayar"
    /\ dot(t_in.n, t_in.l) > 0
    /\ dot(t_in.n, t_in.v) < 0
    /\ t_out.val = 0

\* Both routines return positive values for lights and viewers in front of
\* the surface.
C15_WitnessLit ==
    /\ t_out # NoCall
    /\ t_in.fn = "shade_oren_nayar"
    /\ t_out.val > 0
    /\ shade_lambert(t_in.l, t_in.n) > 0

\* The directions of the sample rays s, s + 1, ... of a sphere light from
\* the point pos, the generator being at position k
RECURSIVE SampleDirs(_, _, _, _, _)
SampleDirs(light, pos, rs, k, s) ==
    IF s >= light.samples THEN <<>>
    ELSE LET rand_pos == random_point_on_sphere(rs, k, light.position, light.radius)
         IN  <<VSub(rand_pos.v, pos)>> \o SampleDirs(light, pos, rs, rand_pos.k, s + 1)

\* The sample rays of the call
CallSampleDirs == SampleDirs(t_in.light, t_in.inter.pos, t_in.rs, 0, 0)

\* The sample rays of the call that meet no sphere other than the hit one
\* and no triangle
Unoccluded ==
    {s \in 1..Len(CallSampleDirs) :
        /\ \A l \in 0..(Len(t_in.scene.spheres) - 1) :
              l # t_in.closest_sp_index
                 => ~ray_intersects_sphere(t_in.inter.pos, CallSampleDirs[s],
                                           t_in.scene.spheres[l + 1].center,
                                           t_in.scene.spheres[l + 1].radius)
        /\ \A m \in 1..Len(t_in.scene.meshes) :
              \A t \in 1..Len(t_in.scene.meshes[m].triangles) :
                 ~ray_intersects_triangle(t_in.inter.pos, CallSampleDirs[s],
                                          t_in.scene.meshes[m].triangles[t].v1,
                                          t_in.scene.meshes[m].triangles[t].v2,
                                          t_in.scene.meshes[m].triangles[t].v3)}

\* C16: the visibility of a sphere light with samples >= 1 is the number of
\* its unoccluded sample rays divided by light.samples, lies in [0, 1], and
\* is 1 when no sample ray is occluded.
C16_VisibilityFraction ==
    (t_out # NoCall /\ t_in.fn = "light_visibility")
       => /\ t_out.v = FDiv(Cardinality(Unoccluded) * Unit, t_in.light.samples * Unit)
          /\ 0 <= t_out.v /\ t_out.v <= Unit
          /\ Cardinality(Unoccluded) = t_in.light.samples => t_out.v = Unit

\* A sphere light of three samples, none of them occluded, in a scene that
\* holds something besides the hit sphere
C16_Witness ==
    /\ t_out # NoCall
    /\ t_in.fn = "light_visibility"
    /\ t_in.light.samples = 3
    /\ t_in.scene # SceneOpen
    /\ Cardinality(Unoccluded) = 3
    /\ t_out.v = Unit

\* A sphere light some but not all of whose samples are occluded
C16_WitnessPartial ==
    /\ t_out # NoCall
    /\ t_in.fn = "light_visibility"
    /\ Cardinality(Unoccluded) \in 1..(t_in.light.samples - 1)
    /\ 0 < t_out.v /\ t_out.v < Unit

\* C17: a call of trace with depth > scene.max_depth returns black without
\* a search and without a draw; every call trace makes is made with the
\* depth of its caller plus one; and the calls nested in a call of depth 0
\* are at most max_depth + 2, this call included.
C17_DepthBounded ==
    t_out # NoCall
       => /\ t_in.depth > scene.max_depth
                => /\ t_out.color = black
                   /\ t_out.k = 0
                   /\ Len(t_out.log) = 1
                   /\ t_out.log[1].kind = "limit"
          /\ t_out.log[1].depth = t_in.depth
          /\ \A i \in 2..Len(t_out.log) :
                /\ t_out.log[i].depth = t_out.log[i - 1].depth + 1
                /\ t_out.log[i - 1].bounces = 1
          /\ t_in.depth = 0 => Len(t_out.log) <= scene.max_depth + 2

\* A call of depth 0 in the scene of max_depth 2 whose path reaches the
\* limit: four nested calls, the last of depth 3
C17_Witness ==
    /\ t_out # NoCall
    /\ t_in.depth = 0
    /\ scene.max_depth = 2
    /\ Len(t_out.log) = 4
    /\ t_out.log[4].kind = "limit"
    /\ t_out.log[4].depth = 3

\* What the triangles of the meshes m, m + 1, ... report for the ray of
\* the search, each with the material of its mesh
RECURSIVE MeshObjects(_, _)
MeshObjects(meshes, m) ==
    IF m > Len(meshes) THEN <<>>
    ELSE [i \in 1..Len(meshes[m].triangles) |->
             [hit |-> intersect_ray_triangle(t_in.ray_org, t_in.ray_dir,
                                             meshes[m].triangles[i].v1,
                                             meshes[m].triangles[i].v2,
                                             meshes[m].triangles[i].v3, MinTInit),
              material |-> meshes[m].material]]
         \o MeshObjects(meshes, m + 1)

\* What every object of the scene reports for the ray of the search, in the
\* order in which trace tests them: the spheres, then the triangles
SearchObjects ==
    [i \in 1..Len(t_in.scene.spheres) |->
        [hit |-> intersect_ray_sphere(t_in.ray_org, t_in.ray_dir,
                                      t_in.scene.spheres[i].center,
                                      t_in.scene.spheres[i].radius, MinTInit),
         material |-> t_in.scene.spheres[i].material]]
    \o MeshObjects(t_in.scene.meshes, 1)

\* The objects that report a hit
SearchHits == {o \in 1..Len(SearchObjects) : SearchObjects[o].hit.kind = "some"}

\* The first of the objects whose hit has the least ray_t
FirstNearest ==
    CHOOSE o \in SearchHits :
       \A q \in SearchHits :
          \/ SearchObjects[o].hit.ray_t < SearchObjects[q].hit.ray_t
          \/ SearchObjects[o].hit.ray_t = SearchObjects[q].hit.ray_t /\ o <= q

\* When the search is over, the retained hit is that of the first object of
\* the least ray_t, and mat_name is the material of that object.
SearchKeepsFirstNearest ==
    (t_out # NoCall /\ t_out.loop = "done")
       => IF SearchHits = {} THEN t_out.st.closest = None
          ELSE /\ t_out.st.closest = SearchObjects[FirstNearest].hit
               /\ t_out.st.min_t = SearchObjects[FirstNearest].hit.ray_t
               /\ t_out.mat_name = SearchObjects[FirstNearest].material

\* A step of the search leaves min_t or lowers it, and replaces the closest
\* hit only by a hit of a ray_t below min_t, which becomes min_t.
SearchStepLowers ==
    (t_out # NoCall /\ t_out' # NoCall)
       => /\ t_out'.st.min_t <= t_out.st.min_t
          /\ t_out'.st.closest # t_out.st.closest
                => /\ t_out'.st.closest.ray_t < t_out.st.min_t
                   /\ t_out'.st.min_t = t_out'.st.closest.ray_t
          /\ t_out'.st.closest = t_out.st.closest
                => t_out'.st.min_t = t_out.st.min_t

\* C18: in the search for the nearest hit min_t never increases, the closest
\* hit is replaced only by a hit of strictly smaller ray_t, and at the end
\* the retained hit has the least ray_t of all hits, is the first tested of
\* those of that ray_t, and names the material that is used.
C18_NearestHitKept == []SearchKeepsFirstNearest /\ [][SearchStepLowers]_vars

\* The search is over for a ray that two objects report at the same ray_t,
\* and the first of them is retained.
C18_Witness ==
    /\ t_out # NoCall
    /\ t_out.loop = "done"
    /\ \E o, q \in SearchHits :
          /\ o < q
          /\ SearchObjects[o].hit.ray_t = SearchObjects[q].hit.ray_t
          /\ o = FirstNearest
          /\ SearchObjects[o].material # SearchObjects[q].material
          /\ t_out.mat_name = SearchObjects[o].material

\* The objects the search has been through
Tested == {t_out.tested[k] : k \in 1..Len(t_out.tested)}

\* Scene::objects lists every sphere, mesh and voxel volume of the scene of
\* the search once.
ObjectsListsAllOnce ==
    /\ Len(objects(t_in.scene))
          = Len(t_in.scene.spheres) + Len(t_in.scene.meshes) + Len(t_in.scene.voxels)
    /\ \A k, l \in 1..Len(objects(t_in.scene)) :
          objects(t_in.scene)[k] = objects(t_in.scene)[l] => k = l

\* C19: when the nearest-hit search of trace is over, every object that
\* Scene::objects lists for the scene (spheres, meshes and voxel volumes)
\* has been tested against the ray.
C19_EveryObjectTested ==
    (t_out # NoCall /\ t_out.loop = "done")
       => \A k \in 1..Len(objects(t_in.scene)) : objects(t_in.scene)[k] \in Tested

\* What C19 says of the scenes that hold no voxel volume.
C19_SpheresAndMeshesTested ==
    (t_out # NoCall /\ t_out.loop = "done" /\ t_in.scene.voxels = <<>>)
       => \A k \in 1..Len(objects(t_in.scene)) : objects(t_in.scene)[k] \in Tested

\* C20: every call of trace that shades a hit with a material that was
\* found makes scene.path_samples recursive calls: none when path_samples
\* is 0.
C20_BouncesArePathSamples ==
    t_out # NoCall
       => \A i \in 1..Len(t_out.log) :
             t_out.log[i].kind = "shaded" => t_out.log[i].bounces = scene.path_samples

\* What C20 says of the scenes of path_samples 1.
C20_OneBounceOfOne ==
    (t_out # NoCall /\ scene.path_samples = 1)
       => \A i \in 1..Len(t_out.log) :
             t_out.log[i].kind = "shaded" => t_out.log[i].bounces = 1

(***************************************************************************)
(* Properties of the indirect term, the routines of linear.rs, the octree  *)
(* and the passes of the render                                            *)
(***************************************************************************)
\* C21: the indirect term adds the returned radiance times the shading to
\* the lit colour channel by channel: lcolor.r, lcolor.g and lcolor.b
\* increase by path_color.r * shading, path_color.g * shading and
\* path_color.b * shading.
C21_IndirectPerChannel ==
    (t_out # NoCall /\ t_in.fn = "path_color")
       => /\ t_out.lcolor.r = t_in.lcolor.r + FMul(t_in.path_color.r, t_in.shading)
          /\ t_out.lcolor.g = t_in.lcolor.g + FMul(t_in.path_color.g, t_in.shading)
          /\ t_out.lcolor.b = t_in.lcolor.b + FMul(t_in.path_color.b, t_in.shading)

\* What C21 says of the red channel alone.
C21_RedChannel ==
    (t_out # NoCall /\ t_in.fn = "path_color")
       => t_out.lcolor.r = t_in.lcolor.r + FMul(t_in.path_color.r, t_in.shading)

\* The quantities intersect_ray_sphere computes for the call in t_in:
\* the projection a of e = c - p0 on the direction, and k.
SphereA == dot(VSub(t_in.sphere.center, t_in.o), normalize(t_in.d))

SphereK ==
    FMul(t_in.sphere.radius, t_in.sphere.radius)
       - FMul(len(VSub(t_in.sphere.center, t_in.o)), len(VSub(t_in.sphere.center, t_in.o)))
       + FMul(SphereA, SphereA)

\* The origin of the ray lies inside or on the sphere: |c - p0| <= r
OriginInSphere ==
    LET e == VSub(t_in.sphere.center, t_in.o)
    IN  e.x * e.x + e.y * e.y + e.z * e.z <= t_in.sphere.radius * t_in.sphere.radius

\* C22: intersect_ray_sphere returns None when k = r^2 - |e|^2 + a^2 is
\* negative, when the near root t = a - sqrt(k) is <= 0, which is so for
\* every origin inside or on the sphere, or when t > min_t; every hit it
\* returns has 0 < ray_t <= min_t and the normal normalize(pos - center).
C22_SphereHitBounds ==
    (t_out # NoCall /\ t_in.fn = "intersect_ray_sphere")
       => /\ SphereK < 0 => t_out = None
          /\ (SphereK >= 0 /\ SphereA - FSqrt(SphereK) <= 0) => t_out = None
          /\ (SphereK >= 0 /\ SphereA - FSqrt(SphereK) > t_in.min_t) => t_out = None
          /\ OriginInSphere => t_out = None
          /\ t_out # None
                => /\ 0 < t_out.ray_t
                   /\ t_out.ray_t <= t_in.min_t
                   /\ t_out.normal = normalize(VSub(t_out.pos, t_in.sphere.center))

\* What C22 says without the clause on the origins inside or on the
\* sphere.
C22_RootBounds ==
    (t_out # NoCall /\ t_in.fn = "intersect_ray_sphere")
       => /\ SphereK < 0 => t_out = None
          /\ (SphereK >= 0 /\ SphereA - FSqrt(SphereK) <= 0) => t_out = None
          /\ (SphereK >= 0 /\ SphereA - FSqrt(SphereK) > t_in.min_t) => t_out = None
          /\ t_out # None
                => /\ 0 < t_out.ray_t
                   /\ t_out.ray_t <= t_in.min_t
                   /\ t_out.normal = normalize(VSub(t_out.pos, t_in.sphere.center))

\* A call from an origin on the sphere returned a hit.
C22_HitFromSurface ==
    /\ t_out # NoCall
    /\ t_in.fn = "intersect_ray_sphere"
    /\ OriginInSphere
    /\ t_out # None

\* w0 * n0 + w1 * n1 + w2 * n2, normalized
InterpolatedNormal(w, n0, n1, n2) ==
    normalize(Vec(FMul(n0.x, w.x) + FMul(n1.x, w.y) + FMul(n2.x, w.z),
                  FMul(n0.y, w.x) + FMul(n1.y, w.y) + FMul(n2.y, w.z),
                  FMul(n0.z, w.x) + FMul(n1.z, w.y) + FMul(n2.z, w.z),
                  Unit))

\* C23: the normal of a triangle hit is the normalized interpolation of the
\* normals of all three vertices by the barycentric weights of the hit.
C23_InterpolatedNormal ==
    (t_out # NoCall /\ t_in.fn = "intersect_ray_triangle" /\ t_out.kind = "some")
       => t_out.normal = InterpolatedNormal(t_out.barycentric, t_in.tri.v1.normal,
                                            t_in.tri.v2.normal, t_in.tri.v3.normal)

\* What the routine returns instead: the normal of the first vertex, at
\* every hit point.
C23_FirstVertexNormal ==
    (t_out # NoCall /\ t_in.fn = "intersect_ray_triangle" /\ t_out.kind = "some")
       => Near(t_out.normal, normalize(t_in.tri.v1.normal))

\* Hits on the triangle whose vertex normals differ, away from its first
\* corner
C23_SmoothHit ==
    /\ t_out # NoCall
    /\ t_in.fn = "intersect_ray_triangle"
    /\ t_out.kind = "some"
    /\ t_in.tri = SmoothTriangle
    /\ t_out.barycentric.x < Unit \div 2

\* The interval of the parameters t at which the ray o + t * d lies in the
\* slab [lo, hi] of one axis, as two fractions of a positive denominator;
\* a ray along the slab (d = 0) is in it for every t or for none.
SlabLo(o, d, lo, hi) == IF d > 0 THEN lo - o ELSE o - hi
SlabHi(o, d, lo, hi) == IF d > 0 THEN hi - o ELSE o - lo
SlabDen(d) == Abs(d)

Axes == {"x", "y", "z"}

Coord(v, ax) == IF ax = "x" THEN v.x ELSE IF ax = "y" THEN v.y ELSE v.z

\* Some point o + t * d lies in the box, with t >= 0 when ray holds and
\* t of either sign otherwise, in exact arithmetic
PointInBox(o, d, box, ray) ==
    /\ \A ax \in Axes :
          Coord(d, ax) = 0
             => Coord(box.min, ax) <= Coord(o, ax) /\ Coord(o, ax) <= Coord(box.max, ax)
    /\ \A ax, bx \in Axes :
          (Coord(d, ax) # 0 /\ Coord(d, bx) # 0)
             => SlabLo(Coord(o, ax), Coord(d, ax), Coord(box.min, ax), Coord(box.max, ax))
                   * SlabDen(Coord(d, bx))
                <= SlabHi(Coord(o, bx), Coord(d, bx), Coord(box.min, bx), Coord(box.max, bx))
                      * SlabDen(Coord(d, ax))
    /\ ray => \A ax \in Axes :
                 Coord(d, ax) # 0
                    => SlabHi(Coord(o, ax), Coord(d, ax), Coord(box.min, ax),
                              Coord(box.max, ax)) >= 0

\* C24: ray_intersects_aabb returns true only if some point o + t * d with
\* t >= 0 lies in the box: it returns false when the three intervals of t
\* have no common point and when the box lies behind the origin.
C24_TrueOnlyIfRayHitsBox ==
    (t_out # NoCall /\ t_in.fn = "ray_intersects_aabb")
       => (t_out.val => PointInBox(t_in.o, t_in.d, t_in.box, TRUE))

\* What C24 says of the line through the origin: true only if some point
\* o + t * d, t of either sign, lies in the box.
C24_TrueOnlyIfLineHitsBox ==
    (t_out # NoCall /\ t_in.fn = "ray_intersects_aabb")
       => (t_out.val => PointInBox(t_in.o, t_in.d, t_in.box, FALSE))

\* A call answered true for a box that the line meets only behind the
\* origin, and a call answered false for a box the line misses.
C24_BehindTrue ==
    /\ t_out # NoCall
    /\ t_in.fn = "ray_intersects_aabb"
    /\ t_out.val
    /\ ~PointInBox(t_in.o, t_in.d, t_in.box, TRUE)

C24_MissFalse ==
    /\ t_out # NoCall
    /\ t_in.fn = "ray_intersects_aabb"
    /\ ~t_out.val
    /\ ~PointInBox(t_in.o, t_in.d, t_in.box, FALSE)

\* The box of a triangle overlaps the box [min, max], boundaries inclusive
BoxOverlaps(tri, min, max) ==
    LET lo(a, b, c) == Min(Min(a, b), c)
        hi(a, b, c) == Max(Max(a, b), c)
    IN  /\ lo(tri.v1.pos.x, tri.v2.pos.x, tri.v3.pos.x) <= max.x
        /\ hi(tri.v1.pos.x, tri.v2.pos.x, tri.v3.pos.x) >= min.x
        /\ lo(tri.v1.pos.y, tri.v2.pos.y, tri.v3.pos.y) <= max.y
        /\ hi(tri.v1.pos.y, tri.v2.pos.y, tri.v3.pos.y) >= min.y
        /\ lo(tri.v1.pos.z, tri.v2.pos.z, tri.v3.pos.z) <= max.z
        /\ hi(tri.v1.pos.z, tri.v2.pos.z, tri.v3.pos.z) >= min.z

InList(i, tris) == \E k \in 1..Len(tris) : tris[k] = i

\* C25: after build_octree, a triangle index is in the tris list of a leaf
\* if and only if the bounding box of the triangle overlaps the box of the
\* leaf: the filtering by the boxes of the ancestors removes no triangle
\* that overlaps the leaf.
C25_LeafHoldsOverlapping ==
    (t_out # NoCall /\ t_out.children = <<>>)
       => \A i \in 1..Len(t_in.triangles) :
             InList(i, t_out.tris)
                <=> BoxOverlaps(t_in.triangles[i], t_out.min, t_out.max)

\* What C25 says in one direction: every triangle in the list of a leaf
\* overlaps the box of the leaf.
C25_ListedOverlap ==
    (t_out # NoCall /\ t_out.children = <<>>)
       => \A i \in 1..Len(t_in.triangles) :
             InList(i, t_out.tris)
                => BoxOverlaps(t_in.triangles[i], t_out.min, t_out.max)

\* What C25 says of the meshes whose boxes halve without rounding.
C25_ExactBoxes ==
    (t_out # NoCall /\ t_out.children = <<>> /\ t_in.triangles # EdgeMesh)
       => \A i \in 1..Len(t_in.triangles) :
             InList(i, t_out.tris)
                <=> BoxOverlaps(t_in.triangles[i], t_out.min, t_out.max)

\* Child k of a node (1..8, in the order they are pushed) is the octant of
\* the node's box on the side (_x, _y, _z) of its centre: from min to the
\* centre or from the centre to max on each axis.  (Twice each bound, so
\* that the centre needs no division.)
OctantSide(lo, hi, min, max, side) ==
    IF side = 0 THEN 2 * lo = 2 * min /\ 2 * hi = min + max
                ELSE 2 * lo = min + max /\ 2 * hi = 2 * max

IsOctant(node, k) ==
    /\ OctantSide(node.children[k].min.x, node.children[k].max.x, node.min.x,
                  node.max.x, (k - 1) \div 4)
    /\ OctantSide(node.children[k].min.y, node.children[k].max.y, node.min.y,
                  node.max.y, ((k - 1) \div 2) % 2)
    /\ OctantSide(node.children[k].min.z, node.children[k].max.z, node.min.z,
                  node.max.z, (k - 1) % 2)

\* The shape of the node at t_in.path: its level is one more than the
\* length of the path; below level 6 it has 8 children and no tris, at
\* level 6 it has no children
ShapeOfNode ==
    /\ t_out.depth = Len(t_in.path) + 1
    /\ t_out.depth <= OctreeMaxDepth
    /\ t_out.depth < OctreeMaxDepth => Len(t_out.children) = 8 /\ t_out.tris = <<>>
    /\ t_out.depth = OctreeMaxDepth => t_out.children = <<>>

\* C26: build_octree makes a tree of a fixed shape for every mesh, an empty
\* one included: the root at level 1, every node below level 6 with 8
\* children and an empty tris list, every node at level 6 a leaf, and the 8
\* child boxes of a node its equal octants, which together cover its box.
C26_FixedShape ==
    t_out # NoCall
       => /\ ShapeOfNode
          /\ \A k \in 1..Len(t_out.children) : IsOctant(t_out, k)

\* What C26 says of the levels, the children and the lists alone.
C26_LevelsAndChildren == t_out # NoCall => ShapeOfNode

\* What C26 says of the meshes whose boxes halve without rounding.
C26_OctantsOfExactBoxes ==
    (t_out # NoCall /\ t_in.triangles \in {FlatMesh.triangles, DeepMesh.triangles})
       => \A k \in 1..Len(t_out.children) : IsOctant(t_out, k)

\* An inner node of the tree of a mesh with triangles whose children leave
\* a part of its box uncovered
C26_Uncovered ==
    /\ t_out # NoCall
    /\ t_in.triangles = EdgeMesh
    /\ t_out.children # <<>>
    /\ t_out.children[8].max.y < t_out.max.y

\* C27: shade_lambert normalizes its arguments: the value for l and n of
\* any positive lengths is the value for the unit vectors along them, and
\* it lies in [0, 1].
C27_LambertOfDirections ==
    (t_out # NoCall /\ t_in.fn = "shade_lambert")
       => /\ Abs(t_out.val - shade_lambert(normalize(t_in.l), normalize(t_in.n))) <= Tol
          /\ 0 <= t_out.val
          /\ t_out.val <= Unit

\* What C27 says of the arguments of length 1.
C27_LambertOfUnitVectors ==
    (t_out # NoCall /\ t_in.fn = "shade_lambert"
        /\ t_in.l \in ShadeDirs /\ t_in.n \in ShadeNormals)
       => /\ Abs(t_out.val - shade_lambert(normalize(t_in.l), normalize(t_in.n))) <= Tol
          /\ 0 <= t_out.val
          /\ t_out.val <= Unit

\* shade_lambert has returned more than 1
C27_Brighter ==
    /\ t_out # NoCall
    /\ t_in.fn = "shade_lambert"
    /\ t_out.val > Unit

\* C28: assert!(t >= 0.0) of intersect_ray_triangle never fails: whenever
\* control reaches it (n . rdir < 0, t <= 0 and t >= dot * min_t) the
\* quotient t / dot is >= 0, so the routine never panics.
C28_AssertNeverFails ==
    (t_out # NoCall
        /\ t_in.fn \in {"intersect_ray_triangle", "intersect_ray_triangle guards"})
       => t_out # Panic

\* What C28 says of the calls in which no product is beyond f64::MAX.
C28_AssertHoldsOfFinite ==
    (t_out # NoCall /\ t_in.fn = "intersect_ray_triangle") => t_out # Panic

\* A call of finite n, dot and t has passed the assertion and returned a
\* hit.
C28_AssertPassed ==
    /\ t_out # NoCall
    /\ t_in.fn = "intersect_ray_triangle"
    /\ t_out.kind = "some"
    /\ t_out.ray_t > 0


\* The workers w1 and w2 have both been spawned.
BothSpawned(w1, w2) == worker[w1].state # "idle" /\ worker[w2].state # "idle"

InFlight(w) == worker[w].state \in {"running", "computed"}

\* C30: at the head of a pass no worker is in flight, and the channel the
\* pass creates is empty and num_threads is 0; every message in the
\* channel was sent by a worker spawned in the current pass, and every
\* worker in flight was spawned in the current pass; a result added into
\* lines is added during the pass whose worker computed it.
C30_PassesIsolated ==
    /\ [](pc = "pass" => \A w \in Workers : ~InFlight(w))
    /\ [][(pc = "pass" /\ pc' # "pass" /\ sample < Samples)
             => (chan' = <<>> /\ num_threads' = 0)]_vars
    /\ [](\A i \in 1..Len(chan) : chan[i].pass = sample)
    /\ [](\A w \in Workers : InFlight(w) => (w[1] = sample /\ pc # "pass"))
    /\ [][\A r \in Rows :
             added'[r] # added[r]
                => /\ chan # <<>>
                   /\ Head(chan).line = r
                   /\ Head(chan).pass = sample
                   /\ added'[r] = Append(added[r], Head(chan).pass)]_vars

\* In the second pass a result of the second pass has been added into
\* lines while another is in the channel and a third worker is in flight.
C30_SecondPassReceiving ==
    /\ sample = 1
    /\ chan # <<>>
    /\ \E r \in Rows : Len(added[r]) = 2 /\ added[r][2] = 1
    /\ \E w \in Workers : InFlight(w)
====
